---------------------------- MODULE Spec2Model ----------------------------
(***************************************************************************)
(* Model of package safedeserialize (go-safeinput): the guard layer placed *)
(* in front of the JSON / YAML / XML / Gob decoders.                       *)
(*                                                                         *)
(* Three specifications share the operators translated from the source:   *)
(*   Spec          the format decode pipelines (free functions, Decoder)  *)
(*   SpecTarget    validateTarget / validateStructFields on every          *)
(*                 destination shape and every Options value               *)
(*   SpecRegistry  the TypeRegistry and the whitelist derived from it      *)
(***************************************************************************)
EXTENDS Integers, Sequences, FiniteSets, TLC

VARIABLES
    options,    \* the *Options being resolved: DefaultOptions() + overrides
    decoder,    \* the Decoder built by NewDecoder: its opts, or NoDecoder
    registry,   \* TypeRegistry.types: type name -> reflect.Type
    registered, \* the values handed to Register / RegisterMultiple so far
    call,       \* the last call made and what it returned
    mu,         \* TypeRegistry.mu: the sync.RWMutex
    procs       \* the goroutines calling the registry: where each one is

vars == <<options, decoder, registry, registered, call, mu, procs>>

-----------------------------------------------------------------------------
(* Bounds of the model and constants of the program.                       *)

\* longest input (bytes) handed to a decode entry point
MaxLen == 3
\* largest value passed to WithMaxSize
MaxSizeArg == 1
\* largest value passed to WithMaxDepth
MaxDepthArg == 1
\* deepest chain of nested struct types in the type universe
MaxNest == 2
\* largest number of names passed to WithAllowedTypes
MaxAllowed == 1
\* the longest argument list handed to RegisterMultiple
MaxValues == 2
\* the longest list of overrides handed to one call
MaxOverrides == 3
\* the longest byte sequence handed to measureJSONDepth on its own
MaxDepthLen == 3
\* the goroutines that share one TypeRegistry
NumProcs == 2

DefaultMaxSize == 1048576
DefaultMaxDepth == 32

\* the largest int64 (Options.MaxSize), scaled to the 32 bits of the model's
\* integers; sums of int64 values wrap around at it
MaxInt64 == 2147483647

-----------------------------------------------------------------------------
(* Errors.  An error value is a record: "is" names the sentinel that       *)
(* errors.Is finds in it ("none" when it wraps no sentinel of the          *)
(* package), "msg" the text that distinguishes it.                         *)

NilErr == [is |-> "nil", msg |-> ""]

ErrDataTooLarge == [is |-> "ErrDataTooLarge", msg |-> ""]
ErrNilTarget == [is |-> "ErrNilTarget", msg |-> ""]
ErrNotPointer == [is |-> "ErrNotPointer", msg |-> ""]
ErrInterfaceTarget == [is |-> "ErrInterfaceTarget", msg |-> ""]
ErrMapInterface == [is |-> "ErrMapInterface", msg |-> ""]
ErrSliceInterface == [is |-> "ErrSliceInterface", msg |-> ""]
ErrTypeNotAllowed == [is |-> "ErrTypeNotAllowed", msg |-> ""]
ErrMaxDepthExceeded == [is |-> "ErrMaxDepthExceeded", msg |-> ""]
ErrEmptyData == [is |-> "ErrEmptyData", msg |-> ""]

\* fmt.Errorf("%w: ...", sentinel, ...): errors.Is(err, sentinel) holds
Wrapf(sentinel, text) == [is |-> sentinel.is, msg |-> text]

\* fmt.Errorf without %w: a new error that wraps nothing
Errorf(text) == [is |-> "none", msg |-> text]

\* errors.Is(err, sentinel)
ErrorsIs(err, sentinel) == err.is = sentinel.is

-----------------------------------------------------------------------------
(* The type universe: what reflect reports about a type.  A type is named  *)
(* by its reflect String(); a descriptor gives its Kind, its Elem (maps,   *)
(* slices, arrays, pointers) and its fields (structs).                     *)

Field(name, exported, type) == [name |-> name, exported |-> exported, type |-> type]

Scalar == [kind |-> "scalar", elem |-> "", fields |-> <<>>]
Container(kind, elem) == [kind |-> kind, elem |-> elem, fields |-> <<>>]
Struct(fields) == [kind |-> "struct", elem |-> "", fields |-> fields]

\* the leaf of a chain of nested structs, by the kind of its unsafe field
LeafKinds == {"iface", "map", "slice", "safe"}

LeafType(leaf) ==
    CASE leaf = "iface" -> "safedeserialize.UnsafeStruct"
      [] leaf = "map" -> "safedeserialize.MapInterfaceStruct"
      [] leaf = "slice" -> "safedeserialize.SliceInterfaceStruct"
      [] OTHER -> "safedeserialize.SimpleUser"

\* main.Nest<k>_<leaf>: a struct whose field Inner is the chain one shorter
NestName(k, leaf) ==
    IF k = 0 THEN LeafType(leaf) ELSE "main.Nest" \o ToString(k) \o "_" \o leaf

\* at even depth the nested struct is held through a pointer
NestDesc(k, leaf) ==
    Struct(<<Field("ID", TRUE, "int"),
             Field("Inner", TRUE,
                   IF k % 2 = 0 THEN "*" \o NestName(k - 1, leaf)
                                ELSE NestName(k - 1, leaf))>>)

NestTypes == {NestName(k, leaf) : k \in 1..MaxNest, leaf \in LeafKinds}

FixedTable ==
    [t \in {"int", "string"} |-> Scalar]
    @@ ("interface {}" :> [kind |-> "interface", elem |-> "", fields |-> <<>>])
    @@ ("map[string]interface {}" :> Container("map", "interface {}"))
    @@ ("map[string]string" :> Container("map", "string"))
    @@ ("[]interface {}" :> Container("slice", "interface {}"))
    @@ ("[]string" :> Container("slice", "string"))
    @@ ("[]*interface {}" :> Container("slice", "*interface {}"))
    @@ ("[]safedeserialize.UnsafeStruct"
            :> Container("slice", "safedeserialize.UnsafeStruct"))
    @@ ("[1]interface {}" :> Container("array", "interface {}"))
    @@ ("[1]string" :> Container("array", "string"))
    @@ ("safedeserialize.SimpleUser"
            :> Struct(<<Field("ID", TRUE, "int"), Field("Name", TRUE, "string"),
                        Field("Email", TRUE, "string")>>))
    @@ ("safedeserialize.ServerConfig"
            :> Struct(<<Field("Host", TRUE, "string"), Field("Port", TRUE, "int")>>))
    @@ ("safedeserialize.NestedConfig"
            :> Struct(<<Field("Server", TRUE, "safedeserialize.ServerConfig"),
                        Field("Database", TRUE, "safedeserialize.DatabaseConfig")>>))
    @@ ("safedeserialize.DatabaseConfig"
            :> Struct(<<Field("Host", TRUE, "string"), Field("Port", TRUE, "int"),
                        Field("Name", TRUE, "string"),
                        Field("MaxConns", TRUE, "int")>>))
    @@ ("safedeserialize.UnsafeStruct"
            :> Struct(<<Field("Name", TRUE, "string"),
                        Field("Data", TRUE, "interface {}")>>))
    @@ ("safedeserialize.MapInterfaceStruct"
            :> Struct(<<Field("Name", TRUE, "string"),
                        Field("Fields", TRUE, "map[string]interface {}")>>))
    @@ ("safedeserialize.SliceInterfaceStruct"
            :> Struct(<<Field("Name", TRUE, "string"),
                        Field("Items", TRUE, "[]interface {}")>>))
    @@ ("main.PtrField"
            :> Struct(<<Field("Data", TRUE, "*interface {}")>>))
    @@ ("main.SlicePtrField"
            :> Struct(<<Field("Items", TRUE, "[]*interface {}")>>))
    @@ ("main.Hidden"
            :> Struct(<<Field("Name", TRUE, "string"),
                        Field("data", FALSE, "interface {}")>>))
    @@ ("main.Node"
            :> Struct(<<Field("Val", TRUE, "int"), Field("Next", TRUE, "*main.Node")>>))
    @@ ("main.Holder"
            :> Struct(<<Field("Items", TRUE, "[]safedeserialize.UnsafeStruct")>>))

\* the types that are not pointers
ValueTypes == DOMAIN FixedTable \cup NestTypes

\* reflect.PtrTo
PtrTo(t) == "*" \o t

\* *T for every T above, and **T for two of them
PtrTypes1 == {PtrTo(t) : t \in ValueTypes}
PtrTypes2 == {PtrTo(PtrTo(t)) : t \in {"interface {}", "safedeserialize.SimpleUser"}}
PtrTypes == PtrTypes1 \cup PtrTypes2

Types == ValueTypes \cup PtrTypes

\* what reflect knows of every type of the universe
TypeTable ==
    [t \in Types |->
        IF t \in DOMAIN FixedTable THEN FixedTable[t]
        ELSE IF t \in NestTypes
        THEN LET kl == CHOOSE p \in (1..MaxNest) \X LeafKinds : NestName(p[1], p[2]) = t
             IN NestDesc(kl[1], kl[2])
        ELSE [kind |-> "ptr",
              elem |-> CHOOSE e \in Types : PtrTo(e) = t,
              fields |-> <<>>]]

\* reflect.Type.Kind
Kind(t) == TypeTable[t].kind

\* reflect.Type.Elem
Elem(t) == TypeTable[t].elem

\* reflect.Type.NumField / Field(i), as the sequence of fields
Fields(t) == TypeTable[t].fields

\* reflect.Type.String
TypeString(t) == t

-----------------------------------------------------------------------------
(* Destinations: the interface{} value v handed to a decode call.  "type"  *)
(* is its dynamic type ("" for the nil interface), "isNil" tells a typed   *)
(* nil pointer from a pointer to storage.                                  *)

NilValue == [type |-> "", isNil |-> TRUE]

\* a non-pointer value, such as SimpleUser{}
ValueOf(t) == [type |-> t, isNil |-> FALSE]

\* a pointer to a T, such as &SimpleUser{} or new(interface{})
PointerTo(t) == [type |-> PtrTo(t), isNil |-> FALSE]

\* a typed nil pointer, such as (*SimpleUser)(nil)
NilPointer(t) == [type |-> PtrTo(t), isNil |-> TRUE]

\* the dynamic type of an interface value is never an interface type
Dests ==
    {NilValue}
    \cup {ValueOf(t) : t \in {u \in ValueTypes : Kind(u) # "interface"}}
    \cup {[type |-> p, isNil |-> n] : p \in PtrTypes, n \in BOOLEAN}

-----------------------------------------------------------------------------
(* Options and the functional overrides.                                   *)

DefaultOptions ==
    [MaxSize |-> DefaultMaxSize,
     MaxDepth |-> DefaultMaxDepth,
     AllowedTypes |-> {},
     StrictMode |-> TRUE,
     AllowMapStringInterface |-> FALSE,
     AllowSliceInterface |-> FALSE]

\* WithMaxSize storing any size
WithMaxSize_unguarded(size, o) == [o EXCEPT !.MaxSize = size]

WithMaxSize(size, o) == IF size > 0 THEN [o EXCEPT !.MaxSize = size] ELSE o

WithMaxDepth(depth, o) == IF depth > 0 THEN [o EXCEPT !.MaxDepth = depth] ELSE o

\* WithAllowedTypes adding the names to those already allowed
WithAllowedTypes_extending(types, o) == [o EXCEPT !.AllowedTypes = @ \cup types]

\* the slice is kept as the set of its elements: validateTarget reads only
\* its length being zero and membership
WithAllowedTypes(types, o) == [o EXCEPT !.AllowedTypes = types]

\* WithStrictMode starting over from the defaults
WithStrictMode_fromDefaults(strict, o) == [DefaultOptions EXCEPT !.StrictMode = strict]

WithStrictMode(strict, o) == [o EXCEPT !.StrictMode = strict]

WithAllowMapStringInterface(allow, o) == [o EXCEPT !.AllowMapStringInterface = allow]

WithAllowSliceInterface(allow, o) == [o EXCEPT !.AllowSliceInterface = allow]

-----------------------------------------------------------------------------
(* Target validation.                                                      *)

\* for fieldType.Kind() == reflect.Ptr { fieldType = fieldType.Elem() }
RECURSIVE Deref(_)
Deref(t) == IF Kind(t) = "ptr" THEN Deref(Elem(t)) ELSE t

\* fmt.Errorf("safedeserialize: struct field %s.%s ...", t.Name(), field.Name):
\* no %w, so the error wraps no sentinel
FieldErrorf(t, field, text) ==
    Errorf("struct field " \o TypeString(t) \o "." \o field.name \o " " \o text)

\* an iteration that goes on to the next field: no error, the visited map
GoOn(visited) == [err |-> NilErr, visited |-> visited]

RECURSIVE validateStructFields(_, _, _)

\* switch fieldType.Kind(), on the field's type with its pointers removed
scanFieldType(t, field, fieldType, opts, visited) ==
    CASE Kind(fieldType) = "interface" ->
            [err |-> FieldErrorf(t, field, "is interface{} type"),
             visited |-> visited]
      [] Kind(fieldType) = "map" ->
            IF Kind(Elem(fieldType)) = "interface" /\ ~opts.AllowMapStringInterface
            THEN [err |-> FieldErrorf(t, field, "contains map with interface{} values"),
                  visited |-> visited]
            ELSE GoOn(visited)
      [] Kind(fieldType) = "slice" ->
            IF Kind(Deref(Elem(fieldType))) = "interface" /\ ~opts.AllowSliceInterface
            THEN [err |-> FieldErrorf(t, field, "is []interface{} type"),
                  visited |-> visited]
            ELSE GoOn(visited)
      [] Kind(fieldType) = "struct" -> validateStructFields(fieldType, opts, visited)
      [] OTHER -> GoOn(visited)

\* the body of the loop on one field: the error it returns (nil to go on to
\* the next field) and the visited map, which the whole recursion shares
scanField(t, field, opts, visited) ==
    IF ~field.exported THEN GoOn(visited)
    ELSE scanFieldType(t, field, Deref(field.type), opts, visited)

RECURSIVE scanFieldsFrom(_, _, _, _)

\* the end of an iteration whose result is r: return its error, or i++
nextField(r, t, i, opts) ==
    IF r.err # NilErr THEN r ELSE scanFieldsFrom(t, i + 1, opts, r.visited)

\* for i := 0; i < t.NumField(); i++, from field i on
scanFieldsFrom(t, i, opts, visited) ==
    IF i > Len(Fields(t)) THEN GoOn(visited)
    ELSE nextField(scanField(t, Fields(t)[i], opts, visited), t, i, opts)

\* a scan that looks at the fields of the outermost struct only
validateStructFields_shallow(t, opts, visited) ==
    IF visited # {} THEN GoOn(visited)
    ELSE scanFieldsFrom(t, 1, opts, visited \cup {t})

validateStructFields(t, opts, visited) ==
    IF t \in visited THEN GoOn(visited)
    ELSE scanFieldsFrom(t, 1, opts, visited \cup {t})

\* the checks with the whitelist consulted before the shape of the pointee
validatePointee_whitelistFirst(elem, opts) ==
    IF Cardinality(opts.AllowedTypes) > 0 /\ TypeString(elem) \notin opts.AllowedTypes
    THEN Wrapf(ErrTypeNotAllowed, TypeString(elem))
    ELSE IF Kind(elem) = "interface" THEN ErrInterfaceTarget
    ELSE IF Kind(elem) = "map" /\ Kind(Elem(elem)) = "interface"
            /\ ~opts.AllowMapStringInterface
    THEN ErrMapInterface
    ELSE IF Kind(elem) = "slice" /\ Kind(Elem(elem)) = "interface"
            /\ ~opts.AllowSliceInterface
    THEN ErrSliceInterface
    ELSE IF opts.StrictMode /\ Kind(elem) = "struct"
    THEN validateStructFields(elem, opts, {}).err
    ELSE NilErr

\* the checks with the whitelist enforced in strict mode only
validatePointee_whitelistStrictOnly(elem, opts) ==
    IF Kind(elem) = "interface" THEN ErrInterfaceTarget
    ELSE IF Kind(elem) = "map" /\ Kind(Elem(elem)) = "interface"
            /\ ~opts.AllowMapStringInterface
    THEN ErrMapInterface
    ELSE IF Kind(elem) = "slice" /\ Kind(Elem(elem)) = "interface"
            /\ ~opts.AllowSliceInterface
    THEN ErrSliceInterface
    ELSE IF opts.StrictMode /\ Cardinality(opts.AllowedTypes) > 0
            /\ TypeString(elem) \notin opts.AllowedTypes
    THEN Wrapf(ErrTypeNotAllowed, TypeString(elem))
    ELSE IF opts.StrictMode /\ Kind(elem) = "struct"
    THEN validateStructFields(elem, opts, {}).err
    ELSE NilErr

\* the checks of validateTarget on elem, the type v points to
validatePointee(elem, opts) ==
    IF Kind(elem) = "interface" THEN ErrInterfaceTarget
    ELSE IF Kind(elem) = "map" /\ Kind(Elem(elem)) = "interface"
            /\ ~opts.AllowMapStringInterface
    THEN ErrMapInterface
    ELSE IF Kind(elem) = "slice" /\ Kind(Elem(elem)) = "interface"
            /\ ~opts.AllowSliceInterface
    THEN ErrSliceInterface
    ELSE IF Cardinality(opts.AllowedTypes) > 0 /\ TypeString(elem) \notin opts.AllowedTypes
    THEN Wrapf(ErrTypeNotAllowed, TypeString(elem))
    ELSE IF opts.StrictMode /\ Kind(elem) = "struct"
    THEN validateStructFields(elem, opts, {}).err
    ELSE NilErr

validateTarget(v, opts) ==
    IF v = NilValue THEN ErrNilTarget
    ELSE IF Kind(v.type) # "ptr" THEN ErrNotPointer
    ELSE IF v.isNil THEN ErrNilTarget
    ELSE validatePointee(Elem(v.type), opts)

-----------------------------------------------------------------------------
(* The depth measurer.                                                     *)

\* the loop of measureJSONDepth from byte i on, s holding its four locals
RECURSIVE scanDepth(_, _, _)
scanDepth(data, i, s) ==
    IF i > Len(data) THEN s.maxDepth
    ELSE
    LET b == data[i]
    IN  IF s.escaped THEN scanDepth(data, i + 1, [s EXCEPT !.escaped = FALSE])
        ELSE IF b = "\\" /\ s.inString
        THEN scanDepth(data, i + 1, [s EXCEPT !.escaped = TRUE])
        ELSE IF b = "\""
        THEN scanDepth(data, i + 1, [s EXCEPT !.inString = ~s.inString])
        ELSE IF s.inString THEN scanDepth(data, i + 1, s)
        ELSE IF b \in {"{", "["}
        THEN scanDepth(data, i + 1,
                [s EXCEPT !.currentDepth = s.currentDepth + 1,
                          !.maxDepth = IF s.currentDepth + 1 > s.maxDepth
                                       THEN s.currentDepth + 1 ELSE s.maxDepth])
        ELSE IF b \in {"}", "]"}
        THEN scanDepth(data, i + 1, [s EXCEPT !.currentDepth = s.currentDepth - 1])
        ELSE scanDepth(data, i + 1, s)

measureJSONDepth(data) ==
    scanDepth(data, 1, [maxDepth |-> 0, currentDepth |-> 0,
                        inString |-> FALSE, escaped |-> FALSE])

-----------------------------------------------------------------------------
(* The format decode pipelines.  A pipeline returns a record: err, the     *)
(* steps it ran in order, whether the external decoder was invoked, the    *)
(* bytes and the strictness it was invoked with, the bytes taken from the  *)
(* source stream, and what became of the destination's storage.            *)

\* a + b on int64, b >= 0
Int64Add(a, b) == IF a > MaxInt64 - b THEN (a - MaxInt64) + b - MaxInt64 - 2 ELSE a + b

\* a source stream: the bytes it yields, and whether it ends with an error
\* instead of io.EOF
Stream(bytes, fails) == [bytes |-> bytes, fails |-> fails]

\* bytes.NewReader(data)
BytesReader(data) == Stream(data, FALSE)

\* reading the source to its end, whatever the limit
LimitRead_toTheEnd(r, n) == r.bytes

\* what is read through io.LimitReader(r, n) until it ends
LimitRead(r, n) ==
    IF n <= 0 THEN <<>>
    ELSE IF Len(r.bytes) <= n THEN r.bytes
    ELSE SubSeq(r.bytes, 1, n)

\* reading through io.LimitReader(r, n) to the end meets the source's error:
\* a source cut by the limit is never read to its end
LimitReadFails(r, n) == r.fails /\ n > 0 /\ Len(r.bytes) < n

\* the external decoders (encoding/json, yaml.v3, encoding/xml, encoding/gob):
\* ok is the decoder's verdict on its input; gob reports io.EOF on no input
ExternalDecode(format, input, ok) ==
    IF format = "gob" /\ input = <<>>
    THEN [err |-> Errorf("EOF"), dest |-> "unchanged"]
    ELSE IF ok THEN [err |-> NilErr, dest |-> "decoded"]
    ELSE [err |-> Errorf(format \o ": decode error"), dest |-> "partial"]

\* a return before the decoder is reached
Stopped(err, steps) ==
    [err |-> err, steps |-> steps, decoded |-> FALSE, input |-> <<>>,
     strict |-> FALSE, read |-> 0, dest |-> "unchanged"]

\* return decoder.Decode(v) / Unmarshal(data, v)
Decode(format, input, strict, ok, steps) ==
    LET r == ExternalDecode(format, input, ok)
    IN  [err |-> r.err, steps |-> Append(steps, "decode"), decoded |-> TRUE,
         input |-> input, strict |-> strict, read |-> 0, dest |-> r.dest]

\* a stream entry point: the steps before the byte-buffer pipeline, and the
\* bytes taken from the source
AfterRead(res, n) == [res EXCEPT !.steps = <<"target", "read">> \o @, !.read = n]

\* the JSON pipeline with the destination validated before the size is looked at
jsonUnmarshal_targetFirst(data, v, opts, ok) ==
    IF Len(data) = 0 THEN Stopped(ErrEmptyData, <<"empty">>)
    ELSE IF validateTarget(v, opts) # NilErr
    THEN Stopped(validateTarget(v, opts), <<"empty", "target">>)
    ELSE IF Len(data) > opts.MaxSize
    THEN Stopped(Wrapf(ErrDataTooLarge, "size exceeds limit"), <<"empty", "target", "size">>)
    ELSE IF opts.StrictMode /\ measureJSONDepth(data) > opts.MaxDepth
    THEN Stopped(Wrapf(ErrMaxDepthExceeded, "depth exceeds limit"),
                 <<"empty", "target", "size", "depth">>)
    ELSE IF opts.StrictMode
    THEN Decode("json", data, TRUE, ok, <<"empty", "target", "size", "depth">>)
    ELSE Decode("json", data, FALSE, ok, <<"empty", "target", "size">>)

\* the JSON pipeline limiting the depth in lenient mode as well
jsonUnmarshal_depthInEveryMode(data, v, opts, ok) ==
    IF Len(data) = 0 THEN Stopped(ErrEmptyData, <<"empty">>)
    ELSE IF Len(data) > opts.MaxSize
    THEN Stopped(Wrapf(ErrDataTooLarge, "size exceeds limit"), <<"empty", "size">>)
    ELSE IF validateTarget(v, opts) # NilErr
    THEN Stopped(validateTarget(v, opts), <<"empty", "size", "target">>)
    ELSE IF measureJSONDepth(data) > opts.MaxDepth
    THEN Stopped(Wrapf(ErrMaxDepthExceeded, "depth exceeds limit"),
                 <<"empty", "size", "target", "depth">>)
    ELSE Decode("json", data, opts.StrictMode, ok, <<"empty", "size", "target", "depth">>)

\* the JSON pipeline measuring the depth ahead of the size check
jsonUnmarshal_depthBeforeSize(data, v, opts, ok) ==
    IF Len(data) = 0 THEN Stopped(ErrEmptyData, <<"empty">>)
    ELSE IF opts.StrictMode /\ measureJSONDepth(data) > opts.MaxDepth
    THEN Stopped(Wrapf(ErrMaxDepthExceeded, "depth exceeds limit"), <<"empty", "depth">>)
    ELSE IF Len(data) > opts.MaxSize
    THEN Stopped(Wrapf(ErrDataTooLarge, "size exceeds limit"),
                 IF opts.StrictMode THEN <<"empty", "depth", "size">>
                 ELSE <<"empty", "size">>)
    ELSE IF validateTarget(v, opts) # NilErr
    THEN Stopped(validateTarget(v, opts),
                 IF opts.StrictMode THEN <<"empty", "depth", "size", "target">>
                 ELSE <<"empty", "size", "target">>)
    ELSE IF opts.StrictMode
    THEN Decode("json", data, TRUE, ok, <<"empty", "depth", "size", "target">>)
    ELSE Decode("json", data, FALSE, ok, <<"empty", "size", "target">>)

\* the JSON pipeline rejecting a depth equal to the limit as well
jsonUnmarshal_depthAtLimit(data, v, opts, ok) ==
    IF Len(data) = 0 THEN Stopped(ErrEmptyData, <<"empty">>)
    ELSE IF Len(data) > opts.MaxSize
    THEN Stopped(Wrapf(ErrDataTooLarge, "size exceeds limit"), <<"empty", "size">>)
    ELSE IF validateTarget(v, opts) # NilErr
    THEN Stopped(validateTarget(v, opts), <<"empty", "size", "target">>)
    ELSE IF opts.StrictMode /\ measureJSONDepth(data) >= opts.MaxDepth
    THEN Stopped(Wrapf(ErrMaxDepthExceeded, "depth exceeds limit"),
                 <<"empty", "size", "target", "depth">>)
    ELSE IF opts.StrictMode
    THEN Decode("json", data, TRUE, ok, <<"empty", "size", "target", "depth">>)
    ELSE Decode("json", data, FALSE, ok, <<"empty", "size", "target">>)

jsonUnmarshal(data, v, opts, ok) ==
    IF Len(data) = 0 THEN Stopped(ErrEmptyData, <<"empty">>)
    ELSE IF Len(data) > opts.MaxSize
    THEN Stopped(Wrapf(ErrDataTooLarge, "size exceeds limit"), <<"empty", "size">>)
    ELSE IF validateTarget(v, opts) # NilErr
    THEN Stopped(validateTarget(v, opts), <<"empty", "size", "target">>)
    ELSE IF opts.StrictMode /\ measureJSONDepth(data) > opts.MaxDepth
    THEN Stopped(Wrapf(ErrMaxDepthExceeded, "depth exceeds limit"),
                 <<"empty", "size", "target", "depth">>)
    ELSE IF opts.StrictMode
    THEN Decode("json", data, TRUE, ok, <<"empty", "size", "target", "depth">>)
    ELSE Decode("json", data, FALSE, ok, <<"empty", "size", "target">>)

jsonDecode(r, v, opts, ok) ==
    IF validateTarget(v, opts) # NilErr
    THEN Stopped(validateTarget(v, opts), <<"target">>)
    ELSE
    LET limit == Int64Add(opts.MaxSize, 1)
        data == LimitRead(r, limit)
    IN  IF LimitReadFails(r, limit)
        THEN [Stopped(Errorf("safedeserialize: read error"), <<"target", "read">>)
                EXCEPT !.read = Len(data)]
        ELSE AfterRead(jsonUnmarshal(data, v, opts, ok), Len(data))

yamlUnmarshal(data, v, opts, ok) ==
    IF Len(data) = 0 THEN Stopped(ErrEmptyData, <<"empty">>)
    ELSE IF Len(data) > opts.MaxSize
    THEN Stopped(Wrapf(ErrDataTooLarge, "size exceeds limit"), <<"empty", "size">>)
    ELSE IF validateTarget(v, opts) # NilErr
    THEN Stopped(validateTarget(v, opts), <<"empty", "size", "target">>)
    ELSE Decode("yaml", data, opts.StrictMode, ok, <<"empty", "size", "target">>)

yamlDecode(r, v, opts, ok) ==
    IF validateTarget(v, opts) # NilErr
    THEN Stopped(validateTarget(v, opts), <<"target">>)
    ELSE
    LET limit == Int64Add(opts.MaxSize, 1)
        data == LimitRead(r, limit)
    IN  IF LimitReadFails(r, limit)
        THEN [Stopped(Errorf("safedeserialize: read error"), <<"target", "read">>)
                EXCEPT !.read = Len(data)]
        ELSE AfterRead(yamlUnmarshal(data, v, opts, ok), Len(data))

xmlUnmarshal(data, v, opts, ok) ==
    IF Len(data) = 0 THEN Stopped(ErrEmptyData, <<"empty">>)
    ELSE IF Len(data) > opts.MaxSize
    THEN Stopped(Wrapf(ErrDataTooLarge, "size exceeds limit"), <<"empty", "size">>)
    ELSE IF validateTarget(v, opts) # NilErr
    THEN Stopped(validateTarget(v, opts), <<"empty", "size", "target">>)
    ELSE Decode("xml", data, opts.StrictMode, ok, <<"empty", "size", "target">>)

xmlDecode(r, v, opts, ok) ==
    IF validateTarget(v, opts) # NilErr
    THEN Stopped(validateTarget(v, opts), <<"target">>)
    ELSE
    LET limit == Int64Add(opts.MaxSize, 1)
        data == LimitRead(r, limit)
    IN  IF LimitReadFails(r, limit)
        THEN [Stopped(Errorf("safedeserialize: read error"), <<"target", "read">>)
                EXCEPT !.read = Len(data)]
        ELSE AfterRead(xmlUnmarshal(data, v, opts, ok), Len(data))

\* the gob decoder reads from the limited reader itself: it is handed at most
\* MaxSize bytes of the source; a source that yields nothing but its error
\* fails the decode with that error
gobDecode(r, v, opts, ok) ==
    IF validateTarget(v, opts) # NilErr
    THEN Stopped(validateTarget(v, opts), <<"target">>)
    ELSE
    LET input == LimitRead(r, opts.MaxSize)
        res == Decode("gob", input, FALSE, ok, <<"target">>)
    IN  IF input = <<>> /\ LimitReadFails(r, opts.MaxSize)
        THEN [res EXCEPT !.err = Errorf("gob: source error")]
        ELSE [res EXCEPT !.read = Len(input)]

-----------------------------------------------------------------------------
(* The TypeRegistry: the map types, from a type's name to the type.        *)

\* NewTypeRegistry(): make(map[string]reflect.Type)
NewTypeRegistry == <<>>

\* the name of reflect.TypeOf(v) with no pointer removed
RegistryKey_asGiven(v) == TypeString(v.type)

\* t := reflect.TypeOf(v); if t.Kind() == reflect.Ptr { t = t.Elem() };
\* t.String()
RegistryKey(v) ==
    IF Kind(v.type) = "ptr" THEN TypeString(Elem(v.type)) ELSE TypeString(v.type)

\* r.types[t.String()] = t
Register(r, v) == (RegistryKey(v) :> RegistryKey(v)) @@ r

\* for _, v := range values { r.Register(v) }
RECURSIVE RegisterMultiple(_, _)
RegisterMultiple(r, values) ==
    IF values = <<>> THEN r
    ELSE RegisterMultiple(Register(r, Head(values)), Tail(values))

\* _, ok := r.types[t.String()]
IsRegistered(r, v) == RegistryKey(v) \in DOMAIN r

\* the orders in which ranging over the map can yield the names of S
RECURSIVE Orders(_)
Orders(S) ==
    IF S = {} THEN {<<>>}
    ELSE UNION {{<<n>> \o rest : rest \in Orders(S \ {n})} : n \in S}

\* for name := range r.types { names = append(names, name) }: the slices
\* TypeNames can return
TypeNames(r) == Orders(DOMAIN r)

\* WithAllowedTypes(names...) on a slice of names
WithAllowedNames(names, o) == WithAllowedTypes({names[i] : i \in DOMAIN names}, o)

\* r.Option(): WithAllowedTypes(r.TypeNames()...), applied to o; every order
\* of the names gives the same whitelist
Option(r, o) == WithAllowedNames(CHOOSE names \in TypeNames(r) : TRUE, o)

-----------------------------------------------------------------------------
(* The calls of a session.  The overrides applied so far are resolved in   *)
(* options; a call records its inputs and what it returned.                *)

NoCall == [op |-> "none"]
NoDecoder == [built |-> FALSE]

\* the values handed to WithMaxSize and WithMaxDepth: invalid ones included
SizeArgs == -1..MaxSizeArg
DepthArgs == -1..MaxDepthArg

\* the names handed to WithAllowedTypes
AllowedPool ==
    {"safedeserialize.SimpleUser", "safedeserialize.UnsafeStruct",
     "map[string]interface {}", "[]interface {}", "map[string]string",
     "interface {}", "Other"}
AllowedArgs == {S \in SUBSET AllowedPool : Cardinality(S) <= MaxAllowed}

\* what an override leaves alone; it starts the list of a new call
OptionFrame == call' = NoCall /\ UNCHANGED <<decoder, registry, registered, mu, procs>>

\* WithMaxSize(size)(options); the options of a built Decoder do not change
ApplyWithMaxSize(size) ==
    /\ decoder = NoDecoder
    /\ options' = WithMaxSize(size, options)
    /\ OptionFrame

ApplyWithMaxDepth(depth) ==
    /\ decoder = NoDecoder
    /\ options' = WithMaxDepth(depth, options)
    /\ OptionFrame

ApplyWithAllowedTypes(types) ==
    /\ decoder = NoDecoder
    /\ options' = WithAllowedTypes(types, options)
    /\ OptionFrame

ApplyWithStrictMode(strict) ==
    /\ decoder = NoDecoder
    /\ options' = WithStrictMode(strict, options)
    /\ OptionFrame

ApplyWithAllowMapStringInterface(allow) ==
    /\ decoder = NoDecoder
    /\ options' = WithAllowMapStringInterface(allow, options)
    /\ OptionFrame

ApplyWithAllowSliceInterface(allow) ==
    /\ decoder = NoDecoder
    /\ options' = WithAllowSliceInterface(allow, options)
    /\ OptionFrame

\* validateTarget(v, options)
CallValidateTarget ==
    /\ \E v \in Dests :
          call' = [op |-> "validateTarget", v |-> v, err |-> validateTarget(v, options)]
    /\ UNCHANGED <<options, decoder, registry, registered, mu, procs>>

\* the inputs of the decode calls
Bytes == {"{", "}"}

RECURSIVE SeqsUpTo(_, _)
SeqsUpTo(S, n) ==
    IF n = 0 THEN {<<>>}
    ELSE LET shorter == SeqsUpTo(S, n - 1)
         IN  shorter \cup {Append(q, b) : q \in {x \in shorter : Len(x) = n - 1}, b \in S}

Inputs == SeqsUpTo(Bytes, MaxLen)

PipelineDests ==
    {NilValue,
     ValueOf("safedeserialize.SimpleUser"),
     NilPointer("safedeserialize.SimpleUser"),
     PointerTo("interface {}"),
     PointerTo("map[string]interface {}"),
     PointerTo("[]interface {}"),
     PointerTo("safedeserialize.SimpleUser"),
     PointerTo("safedeserialize.UnsafeStruct")}

PipelineAllowed == {{}, {"Other"}, {"safedeserialize.SimpleUser"}}

\* what a decode call leaves alone
CallFrame == UNCHANGED <<options, decoder, registry, registered, mu, procs>>

\* the record of a decode call: its entry point, its inputs, its result
Called(op, recv, data, fails, v, res) ==
    [op |-> op, recv |-> recv, data |-> data, fails |-> fails, v |-> v, res |-> res]

\* NewDecoder(opts...): the overrides resolved so far become the Decoder's
NewDecoder ==
    /\ decoder = NoDecoder
    /\ decoder' = [built |-> TRUE, opts |-> options]
    /\ call' = NoCall
    /\ UNCHANGED <<options, registry, registered, mu, procs>>

\* the free functions: JSON(data, v, opts...) and the others; a session makes
\* one decode call with the option list it has resolved
JSON ==
    /\ decoder = NoDecoder
    /\ call = NoCall
    /\ \E data \in Inputs, v \in PipelineDests, ok \in BOOLEAN :
          call' = Called("JSON", "func", data, FALSE, v, jsonUnmarshal(data, v, options, ok))
    /\ CallFrame

JSONReader ==
    /\ decoder = NoDecoder
    /\ call = NoCall
    /\ \E data \in Inputs, fails \in BOOLEAN, v \in PipelineDests, ok \in BOOLEAN :
       LET r == Stream(data, fails)
       IN  call' = Called("JSONReader", "func", r.bytes, r.fails, v,
                            jsonDecode(r, v, options, ok))
    /\ CallFrame

YAML ==
    /\ decoder = NoDecoder
    /\ call = NoCall
    /\ \E data \in Inputs, v \in PipelineDests, ok \in BOOLEAN :
          call' = Called("YAML", "func", data, FALSE, v, yamlUnmarshal(data, v, options, ok))
    /\ CallFrame

YAMLReader ==
    /\ decoder = NoDecoder
    /\ call = NoCall
    /\ \E data \in Inputs, fails \in BOOLEAN, v \in PipelineDests, ok \in BOOLEAN :
       LET r == Stream(data, fails)
       IN  call' = Called("YAMLReader", "func", r.bytes, r.fails, v,
                            yamlDecode(r, v, options, ok))
    /\ CallFrame

XML ==
    /\ decoder = NoDecoder
    /\ call = NoCall
    /\ \E data \in Inputs, v \in PipelineDests, ok \in BOOLEAN :
          call' = Called("XML", "func", data, FALSE, v, xmlUnmarshal(data, v, options, ok))
    /\ CallFrame

XMLReader ==
    /\ decoder = NoDecoder
    /\ call = NoCall
    /\ \E data \in Inputs, fails \in BOOLEAN, v \in PipelineDests, ok \in BOOLEAN :
       LET r == Stream(data, fails)
       IN  call' = Called("XMLReader", "func", r.bytes, r.fails, v,
                            xmlDecode(r, v, options, ok))
    /\ CallFrame

Gob ==
    /\ decoder = NoDecoder
    /\ call = NoCall
    /\ \E data \in Inputs, v \in PipelineDests, ok \in BOOLEAN :
          call' = Called("Gob", "func", data, FALSE, v,
                            gobDecode(BytesReader(data), v, options, ok))
    /\ CallFrame

GobReader ==
    /\ decoder = NoDecoder
    /\ call = NoCall
    /\ \E data \in Inputs, fails \in BOOLEAN, v \in PipelineDests, ok \in BOOLEAN :
       LET r == Stream(data, fails)
       IN  call' = Called("GobReader", "func", r.bytes, r.fails, v,
                            gobDecode(r, v, options, ok))
    /\ CallFrame

\* the methods of the Decoder: the same pipelines on d.opts
DecoderJSON ==
    /\ decoder # NoDecoder
    /\ call = NoCall
    /\ \E data \in Inputs, v \in PipelineDests, ok \in BOOLEAN :
          call' = Called("JSON", "Decoder", data, FALSE, v,
                            jsonUnmarshal(data, v, decoder.opts, ok))
    /\ CallFrame

DecoderJSONReader ==
    /\ decoder # NoDecoder
    /\ call = NoCall
    /\ \E data \in Inputs, fails \in BOOLEAN, v \in PipelineDests, ok \in BOOLEAN :
       LET r == Stream(data, fails)
       IN  call' = Called("JSONReader", "Decoder", r.bytes, r.fails, v,
                            jsonDecode(r, v, decoder.opts, ok))
    /\ CallFrame

DecoderYAML ==
    /\ decoder # NoDecoder
    /\ call = NoCall
    /\ \E data \in Inputs, v \in PipelineDests, ok \in BOOLEAN :
          call' = Called("YAML", "Decoder", data, FALSE, v,
                            yamlUnmarshal(data, v, decoder.opts, ok))
    /\ CallFrame

DecoderYAMLReader ==
    /\ decoder # NoDecoder
    /\ call = NoCall
    /\ \E data \in Inputs, fails \in BOOLEAN, v \in PipelineDests, ok \in BOOLEAN :
       LET r == Stream(data, fails)
       IN  call' = Called("YAMLReader", "Decoder", r.bytes, r.fails, v,
                            yamlDecode(r, v, decoder.opts, ok))
    /\ CallFrame

DecoderXML ==
    /\ decoder # NoDecoder
    /\ call = NoCall
    /\ \E data \in Inputs, v \in PipelineDests, ok \in BOOLEAN :
          call' = Called("XML", "Decoder", data, FALSE, v,
                            xmlUnmarshal(data, v, decoder.opts, ok))
    /\ CallFrame

DecoderXMLReader ==
    /\ decoder # NoDecoder
    /\ call = NoCall
    /\ \E data \in Inputs, fails \in BOOLEAN, v \in PipelineDests, ok \in BOOLEAN :
       LET r == Stream(data, fails)
       IN  call' = Called("XMLReader", "Decoder", r.bytes, r.fails, v,
                            xmlDecode(r, v, decoder.opts, ok))
    /\ CallFrame

DecoderGob ==
    /\ decoder # NoDecoder
    /\ call = NoCall
    /\ \E data \in Inputs, v \in PipelineDests, ok \in BOOLEAN :
          call' = Called("Gob", "Decoder", data, FALSE, v,
                            gobDecode(BytesReader(data), v, decoder.opts, ok))
    /\ CallFrame

DecoderGobReader ==
    /\ decoder # NoDecoder
    /\ call = NoCall
    /\ \E data \in Inputs, fails \in BOOLEAN, v \in PipelineDests, ok \in BOOLEAN :
       LET r == Stream(data, fails)
       IN  call' = Called("GobReader", "Decoder", r.bytes, r.fails, v,
                            gobDecode(r, v, decoder.opts, ok))
    /\ CallFrame

\* the goroutines, and none of them
Procs == 1..NumProcs
NoProc == 0

\* the zero sync.RWMutex: no writer has called Lock, no reader holds it
Unlocked == [writer |-> NoProc, held |-> FALSE, readers |-> {}]

\* a goroutine that is in no registry call
Idle == [pc |-> "idle", op |-> "none", v |-> NilValue, snapshot |-> {},
         names |-> <<>>, ok |-> FALSE, torn |-> FALSE]

InitState ==
    /\ options = DefaultOptions
    /\ decoder = NoDecoder
    /\ registry = NewTypeRegistry
    /\ registered = {}
    /\ call = NoCall
    /\ mu = Unlocked
    /\ procs = [p \in Procs |-> Idle]

NextTarget ==
    \/ \E size \in SizeArgs : ApplyWithMaxSize(size)
    \/ \E depth \in DepthArgs : ApplyWithMaxDepth(depth)
    \/ \E types \in AllowedArgs : ApplyWithAllowedTypes(types)
    \/ \E strict \in BOOLEAN : ApplyWithStrictMode(strict)
    \/ \E allow \in BOOLEAN : ApplyWithAllowMapStringInterface(allow)
    \/ \E allow \in BOOLEAN : ApplyWithAllowSliceInterface(allow)
    \/ CallValidateTarget

SpecTarget == InitState /\ [][NextTarget]_vars

\* the values handed to the registry: SimpleUser{}, &SimpleUser{}, a pointer
\* to a *SimpleUser, UnsafeStruct{}, &UnsafeStruct{}
RegistryTypes == {"safedeserialize.SimpleUser", "safedeserialize.UnsafeStruct"}

\* &v
AddressOf(v) == [type |-> PtrTo(v.type), isNil |-> FALSE]

RegistryValues ==
    {ValueOf(t) : t \in RegistryTypes}
    \cup {PointerTo(t) : t \in RegistryTypes}
    \cup {AddressOf(PointerTo("safedeserialize.SimpleUser"))}

\* the argument lists of RegisterMultiple
ValueLists == SeqsUpTo(RegistryValues, MaxValues)

\* the destinations decoded into with the registry's whitelist
RegistryDests ==
    {NilValue, PointerTo("map[string]string"), PointerTo("interface {}"),
     AddressOf(PointerTo("safedeserialize.SimpleUser"))}
    \cup {PointerTo(t) : t \in RegistryTypes}

\* what a registry call leaves alone
RegistryFrame == UNCHANGED <<options, decoder, mu, procs>>

\* r.Register(v)
CallRegister ==
    /\ \E v \in RegistryValues :
          /\ registry' = Register(registry, v)
          /\ registered' = registered \cup {v}
          /\ call' = [op |-> "Register", v |-> v]
    /\ RegistryFrame

\* r.RegisterMultiple(values...)
CallRegisterMultiple ==
    /\ \E values \in ValueLists :
          /\ registry' = RegisterMultiple(registry, values)
          /\ registered' = registered \cup {values[i] : i \in DOMAIN values}
          /\ call' = [op |-> "RegisterMultiple", values |-> values]
    /\ RegistryFrame

\* r.IsRegistered(v)
CallIsRegistered ==
    /\ \E v \in RegistryValues :
          call' = [op |-> "IsRegistered", v |-> v, ok |-> IsRegistered(registry, v)]
    /\ UNCHANGED <<registry, registered>>
    /\ RegistryFrame

\* names := r.TypeNames(); "of" is what had been registered by then
CallTypeNames ==
    /\ \E names \in TypeNames(registry) :
          call' = [op |-> "TypeNames", names |-> names, of |-> registered]
    /\ UNCHANGED <<registry, registered>>
    /\ RegistryFrame

\* r.Register(v) by a caller that keeps the slice TypeNames returned: the
\* slice was made by TypeNames, Register writes r.types only
RegisterHoldingNames ==
    /\ call.op = "TypeNames"
    /\ \E v \in RegistryValues :
          /\ registry' = Register(registry, v)
          /\ registered' = registered \cup {v}
    /\ UNCHANGED call
    /\ RegistryFrame

\* JSON(data, v, r.Option())
JSONWithOption ==
    /\ \E data \in Inputs, v \in RegistryDests, ok \in BOOLEAN :
          call' = Called("JSON", "Option", data, FALSE, v,
                         jsonUnmarshal(data, v, Option(registry, DefaultOptions), ok))
    /\ UNCHANGED <<registry, registered>>
    /\ RegistryFrame

NextRegistry ==
    \/ CallRegister
    \/ CallRegisterMultiple
    \/ CallIsRegistered
    \/ CallTypeNames
    \/ RegisterHoldingNames
    \/ JSONWithOption

SpecRegistry == InitState /\ [][NextRegistry]_vars

-----------------------------------------------------------------------------
(* The TypeRegistry shared by goroutines.  Each method is a sequence of    *)
(* steps: taking the lock, the accesses to the map, releasing the lock.    *)
(* A map entry being written is Partial until the write is complete; a     *)
(* read of the map while an entry is Partial is a data race.               *)

Partial == "partial"

\* the map is in the middle of a write
Torn(r) == \E k \in DOMAIN r : r[k] = Partial

\* the values the goroutines register and ask about
SharedValues ==
    {ValueOf("safedeserialize.SimpleUser"), PointerTo("safedeserialize.SimpleUser"),
     ValueOf("safedeserialize.UnsafeStruct")}

ReaderOps11 == {"IsRegistered", "TypeNames", "Option"}

\* RLock with no regard for a writer
CanRLock_ignoreWriter(m) == TRUE

\* RWMutex.RLock returns once no writer holds the lock or waits for it
CanRLock(m) == m.writer = NoProc

\* RWMutex.Lock announces the writer once no other writer has the lock ...
CanAnnounce(m) == m.writer = NoProc

\* ... and returns once the readers that hold it are gone
CanLock(m, p) == m.writer = p /\ ~m.held /\ m.readers = {}

\* goroutine p is inside r.RegisterMultiple, between two of its Register
\* calls or in one
InBatch(p) == call.op = "RegisterMultiple" /\ call.proc = p

\* what a step of a registry method leaves alone
SharedFrame == UNCHANGED <<options, decoder, call>>

\* a goroutine calls r.Register(v)
BeginRegister ==
    /\ \E p \in Procs, v \in SharedValues :
          /\ procs[p].pc = "idle"
          /\ ~InBatch(p)
          /\ procs' = [procs EXCEPT ![p] = [Idle EXCEPT !.pc = "Lock", !.op = "Register", !.v = v]]
    /\ UNCHANGED <<registry, registered, mu>>
    /\ SharedFrame

\* a goroutine calls r.IsRegistered(v), r.TypeNames() or r.Option()
BeginRead ==
    /\ \E p \in Procs, op \in ReaderOps11, v \in SharedValues :
          /\ procs[p].pc = "idle"
          /\ ~InBatch(p)
          /\ op # "IsRegistered" => v = ValueOf("safedeserialize.SimpleUser")
          /\ procs' = [procs EXCEPT ![p] =
                            [Idle EXCEPT !.pc = "RLock", !.op = op,
                                         !.v = IF op = "IsRegistered" THEN v ELSE NilValue]]
    /\ UNCHANGED <<registry, registered, mu>>
    /\ SharedFrame

\* r.mu.Lock(), first half: the writer is announced, new readers wait
LockAnnounce ==
    /\ \E p \in Procs :
          /\ procs[p].pc = "Lock"
          /\ CanAnnounce(mu)
          /\ mu' = [mu EXCEPT !.writer = p]
          /\ procs' = [procs EXCEPT ![p].pc = "LockWait"]
    /\ UNCHANGED <<registry, registered>>
    /\ SharedFrame

\* r.mu.Lock(), second half: the lock is taken
Lock ==
    /\ \E p \in Procs :
          /\ procs[p].pc = "LockWait"
          /\ CanLock(mu, p)
          /\ mu' = [mu EXCEPT !.held = TRUE]
          /\ procs' = [procs EXCEPT ![p].pc = "write"]
    /\ UNCHANGED <<registry, registered>>
    /\ SharedFrame

\* r.types[t.String()] = t, the write under way
WriteBegin ==
    /\ \E p \in Procs :
          /\ procs[p].pc = "write"
          /\ registry' = (RegistryKey(procs[p].v) :> Partial) @@ registry
          /\ procs' = [procs EXCEPT ![p].pc = "writing"]
    /\ UNCHANGED <<registered, mu>>
    /\ SharedFrame

\* r.types[t.String()] = t, the write complete
WriteEnd ==
    /\ \E p \in Procs :
          /\ procs[p].pc = "writing"
          /\ registry' = Register(registry, procs[p].v)
          /\ procs' = [procs EXCEPT ![p].pc = "Unlock"]
    /\ UNCHANGED <<registered, mu>>
    /\ SharedFrame

\* defer r.mu.Unlock(): the Register call is complete
Unlock ==
    /\ \E p \in Procs :
          /\ procs[p].pc = "Unlock"
          /\ mu' = [mu EXCEPT !.writer = NoProc, !.held = FALSE]
          /\ registered' = registered \cup {procs[p].v}
          /\ procs' = [procs EXCEPT ![p] = Idle]
    /\ UNCHANGED registry
    /\ SharedFrame

\* r.mu.RLock(): the reader holds the lock; snapshot notes the Register
\* calls complete at this moment
RLock ==
    /\ \E p \in Procs :
          /\ procs[p].pc = "RLock"
          /\ CanRLock(mu)
          /\ mu' = [mu EXCEPT !.readers = @ \cup {p}]
          /\ procs' = [procs EXCEPT ![p].pc = "read", ![p].snapshot = registered]
    /\ UNCHANGED <<registry, registered>>
    /\ SharedFrame

\* _, ok := r.types[t.String()]
ReadIsRegistered ==
    /\ \E p \in Procs :
          /\ procs[p].pc = "read"
          /\ procs[p].op = "IsRegistered"
          /\ procs' = [procs EXCEPT ![p].pc = "RUnlock",
                                    ![p].ok = IsRegistered(registry, procs[p].v),
                                    ![p].torn = Torn(registry)]
    /\ UNCHANGED <<registry, registered, mu>>
    /\ SharedFrame

\* for name := range r.types { names = append(names, name) }, one iteration
RangeStep ==
    /\ \E p \in Procs :
          /\ procs[p].pc = "read"
          /\ procs[p].op \in {"TypeNames", "Option"}
          /\ \E name \in DOMAIN registry \ {procs[p].names[i] : i \in DOMAIN procs[p].names} :
                procs' = [procs EXCEPT ![p].names = Append(@, name),
                                       ![p].torn = @ \/ Torn(registry)]
    /\ UNCHANGED <<registry, registered, mu>>
    /\ SharedFrame

\* the end of the range loop: return names
RangeEnd ==
    /\ \E p \in Procs :
          /\ procs[p].pc = "read"
          /\ procs[p].op \in {"TypeNames", "Option"}
          /\ DOMAIN registry \subseteq {procs[p].names[i] : i \in DOMAIN procs[p].names}
          /\ procs' = [procs EXCEPT ![p].pc = "RUnlock",
                                    ![p].torn = @ \/ Torn(registry)]
    /\ UNCHANGED <<registry, registered, mu>>
    /\ SharedFrame

\* defer r.mu.RUnlock(): the call returns
RUnlock ==
    /\ \E p \in Procs :
          /\ procs[p].pc = "RUnlock"
          /\ mu' = [mu EXCEPT !.readers = @ \ {p}]
          /\ procs' = [procs EXCEPT ![p] = Idle]
    /\ UNCHANGED <<registry, registered>>
    /\ SharedFrame

NextShared ==
    \/ BeginRegister
    \/ BeginRead
    \/ LockAnnounce
    \/ Lock
    \/ WriteBegin
    \/ WriteEnd
    \/ Unlock
    \/ RLock
    \/ ReadIsRegistered
    \/ RangeStep
    \/ RangeEnd
    \/ RUnlock

SpecShared == InitState /\ [][NextShared]_vars

\* the lists of values handed to RegisterMultiple by a goroutine
SharedLists == SeqsUpTo(SharedValues, MaxValues)

\* a goroutine calls r.RegisterMultiple(values...): for _, v := range values
\* begins, and with it the first r.Register(v); "before" notes the names in
\* the registry at the call
BeginRegisterMultiple ==
    /\ call = NoCall
    /\ \E p \in Procs, values \in SharedLists :
          /\ procs[p].pc = "idle"
          /\ IF values = <<>>
                THEN UNCHANGED <<call, procs>>
                ELSE /\ call' = [op |-> "RegisterMultiple", proc |-> p, values |-> values,
                                 i |-> 1, before |-> DOMAIN registry]
                     /\ procs' = [procs EXCEPT ![p] =
                                       [Idle EXCEPT !.pc = "Lock", !.op = "Register",
                                                    !.v = values[1]]]
    /\ UNCHANGED <<options, decoder, registry, registered, mu>>

\* r.Register(v) has returned: the next iteration of the loop calls
\* r.Register with the next value, the last one returns
NextValue ==
    /\ call.op = "RegisterMultiple"
    /\ procs[call.proc].pc = "idle"
    /\ IF call.i < Len(call.values)
          THEN /\ call' = [call EXCEPT !.i = @ + 1]
               /\ procs' = [procs EXCEPT ![call.proc] =
                                 [Idle EXCEPT !.pc = "Lock", !.op = "Register",
                                              !.v = call.values[call.i + 1]]]
          ELSE /\ call' = NoCall
               /\ UNCHANGED procs
    /\ UNCHANGED <<options, decoder, registry, registered, mu>>

NextBatch ==
    \/ NextShared
    \/ BeginRegisterMultiple
    \/ NextValue

SpecBatch == InitState /\ [][NextBatch]_vars

\* the methods of a Decoder, by name: each hands d.opts to the pipeline of
\* its format; a byte buffer is a source that yields data and ends
DecoderMethod_defaultOptions(d, op, r, v, ok) ==
    CASE op = "JSON" -> jsonUnmarshal(r.bytes, v, DefaultOptions, ok)
      [] op = "JSONReader" -> jsonDecode(r, v, DefaultOptions, ok)
      [] op = "YAML" -> yamlUnmarshal(r.bytes, v, DefaultOptions, ok)
      [] op = "YAMLReader" -> yamlDecode(r, v, DefaultOptions, ok)
      [] op = "XML" -> xmlUnmarshal(r.bytes, v, DefaultOptions, ok)
      [] op = "XMLReader" -> xmlDecode(r, v, DefaultOptions, ok)
      [] op \in {"Gob", "GobReader"} -> gobDecode(r, v, DefaultOptions, ok)

DecoderMethod(d, op, r, v, ok) ==
    CASE op = "JSON" -> jsonUnmarshal(r.bytes, v, d.opts, ok)
      [] op = "JSONReader" -> jsonDecode(r, v, d.opts, ok)
      [] op = "YAML" -> yamlUnmarshal(r.bytes, v, d.opts, ok)
      [] op = "YAMLReader" -> yamlDecode(r, v, d.opts, ok)
      [] op = "XML" -> xmlUnmarshal(r.bytes, v, d.opts, ok)
      [] op = "XMLReader" -> xmlDecode(r, v, d.opts, ok)
      [] op \in {"Gob", "GobReader"} -> gobDecode(r, v, d.opts, ok)

MethodNames ==
    {"JSON", "JSONReader", "YAML", "YAMLReader", "XML", "XMLReader", "Gob", "GobReader"}

\* the inputs and the destinations of the calls on a Decoder that is reused
DecoderInputs == {<<>>, <<"{", "}">>}

DecoderDests == {PointerTo(t) : t \in RegistryTypes}

\* d := NewDecoder(opts..., r.Option()): r.Option() reads the names now
NewDecoderWithOption ==
    /\ decoder = NoDecoder
    /\ options' = Option(registry, options)
    /\ decoder' = [built |-> TRUE, opts |-> Option(registry, options)]
    /\ call' = NoCall
    /\ UNCHANGED <<registry, registered, mu, procs>>

\* a call of a method of d, the first one or a later one: d.opts is read
CallDecoder ==
    /\ decoder # NoDecoder
    /\ \E op \in MethodNames, data \in DecoderInputs, fails \in BOOLEAN,
          v \in DecoderDests, ok \in BOOLEAN :
          /\ fails => op \in {"JSONReader", "YAMLReader", "XMLReader", "GobReader"}
          /\ call' = [op |-> op, recv |-> "Decoder", data |-> data, fails |-> fails,
                      v |-> v, ok |-> ok,
                      res |-> DecoderMethod(decoder, op, Stream(data, fails), v, ok)]
    /\ CallFrame

NextDecoder ==
    \/ \E size \in SizeArgs : ApplyWithMaxSize(size)
    \/ \E strict \in BOOLEAN : ApplyWithStrictMode(strict)
    \/ CallRegister
    \/ NewDecoderWithOption
    \/ CallDecoder

SpecDecoder == InitState /\ [][NextDecoder]_vars

-----------------------------------------------------------------------------
(* validateStructFields step by step: the frames of the recursion, each    *)
(* with its struct type, its loop index and the type its pointer loops are *)
(* looking at; the visited map; the struct types whose field loop began.   *)

\* type P *P, a pointer type that is its own element type; structs holding
\* it directly and in a slice; two structs that refer to each other
ScanTable ==
    TypeTable
    @@ ("main.P" :> [kind |-> "ptr", elem |-> "main.P", fields |-> <<>>])
    @@ ("[]main.P" :> Container("slice", "main.P"))
    @@ ("main.Loop" :> Struct(<<Field("ID", TRUE, "int"), Field("Self", TRUE, "main.P")>>))
    @@ ("main.SliceLoop" :> Struct(<<Field("Items", TRUE, "[]main.P")>>))
    @@ ("main.A" :> Struct(<<Field("B", TRUE, "*main.B"), Field("Again", TRUE, "main.B")>>))
    @@ ("main.B" :> Struct(<<Field("A", TRUE, "*main.A"), Field("Name", TRUE, "string")>>))
    @@ ("*main.A" :> [kind |-> "ptr", elem |-> "main.A", fields |-> <<>>])
    @@ ("*main.B" :> [kind |-> "ptr", elem |-> "main.B", fields |-> <<>>])

\* the struct types a scan starts from
ScanRoots == {t \in DOMAIN ScanTable : ScanTable[t].kind = "struct"}

\* the options the scan reads
ScanOptions ==
    {WithAllowSliceInterface(s, WithAllowMapStringInterface(m, DefaultOptions)) :
        m \in BOOLEAN, s \in BOOLEAN}

\* an unexported field added to the struct the scan starts from, ahead of
\* its fields or after them; none when the struct is as declared
NotAdded == [type |-> "", front |-> FALSE]

AddedFields ==
    {NotAdded}
    \cup {[type |-> h, front |-> f] :
            h \in {"interface {}", "map[string]interface {}", "[]interface {}",
                   "safedeserialize.UnsafeStruct"},
            f \in BOOLEAN}

\* what reflect reports about t during the call c
Reflect(c, t) ==
    IF t # c.root \/ c.added = NotAdded THEN ScanTable[t]
    ELSE IF c.added.front
    THEN [ScanTable[t] EXCEPT !.fields = <<Field("hidden", FALSE, c.added.type)>> \o @]
    ELSE [ScanTable[t] EXCEPT !.fields = Append(@, Field("hidden", FALSE, c.added.type))]

\* a scan that looks at every field
IsExported_everyField(field) == TRUE

\* field.IsExported()
IsExported(field) == field.exported

\* a frame of the recursion
Frame(t, i, pc, type) == [t |-> t, i |-> i, pc |-> pc, type |-> type]

\* the frame that is running
Top(c) == c.stack[Len(c.stack)]

\* the running frame moves on
Goto(c, frame) == [c EXCEPT !.stack[Len(c.stack)] = frame]

\* continue, or the end of the switch: i++
NextField(c) == Goto(c, Frame(Top(c).t, Top(c).i + 1, "field", ""))

\* return nil: the frame is left; the caller goes on with its next field,
\* or the outermost call has returned
ReturnNil(c) ==
    IF Len(c.stack) = 1 THEN [c EXCEPT !.stack = <<>>, !.returned = TRUE]
    ELSE NextField([c EXCEPT !.stack = SubSeq(c.stack, 1, Len(c.stack) - 1)])

\* return an error: every caller returns it in turn
ReturnErr(c, err) == [c EXCEPT !.stack = <<>>, !.returned = TRUE, !.err = err]

Scanning == call.op = "validateStructFields" /\ ~call.returned

\* validateStructFields(t, opts, make(map[reflect.Type]bool))
ScanCall ==
    /\ call = NoCall
    /\ \E t \in ScanRoots, opts \in ScanOptions, added \in AddedFields :
          call' = [op |-> "validateStructFields", root |-> t, opts |-> opts,
                   added |-> added, visited |-> {}, scanned |-> <<>>, err |-> NilErr,
                   returned |-> FALSE, stack |-> <<Frame(t, 0, "enter", "")>>]
    /\ CallFrame

\* if visited[t] { return nil }; visited[t] = true
ScanEnter ==
    /\ Scanning
    /\ Top(call).pc = "enter"
    /\ call' = IF Top(call).t \in call.visited THEN ReturnNil(call)
               ELSE Goto([call EXCEPT !.visited = @ \cup {Top(call).t},
                                      !.scanned = Append(@, Top(call).t)],
                         Frame(Top(call).t, 1, "field", ""))
    /\ CallFrame

\* for i := 0; i < t.NumField(); i++ { field := t.Field(i); skip it if it
\* is not exported
ScanField ==
    /\ Scanning
    /\ Top(call).pc = "field"
    /\ call' = IF Top(call).i > Len(Reflect(call, Top(call).t).fields) THEN ReturnNil(call)
               ELSE IF ~IsExported(Reflect(call, Top(call).t).fields[Top(call).i])
               THEN NextField(call)
               ELSE Goto(call, Frame(Top(call).t, Top(call).i, "deref",
                                     Reflect(call, Top(call).t).fields[Top(call).i].type))
    /\ CallFrame

\* for fieldType.Kind() == reflect.Ptr { fieldType = fieldType.Elem() }, one
\* test of the condition
ScanDeref ==
    /\ Scanning
    /\ Top(call).pc = "deref"
    /\ call' = IF Reflect(call, Top(call).type).kind = "ptr"
               THEN Goto(call, [Top(call) EXCEPT !.type = Reflect(call, Top(call).type).elem])
               ELSE Goto(call, [Top(call) EXCEPT !.pc = "switch"])
    /\ CallFrame

\* the error of the scanner for the field the frame is at
ScanErrorf(c, text) ==
    FieldErrorf(Top(c).t, Reflect(c, Top(c).t).fields[Top(c).i], text)

\* switch fieldType.Kind()
ScanSwitch ==
    /\ Scanning
    /\ Top(call).pc = "switch"
    /\ call' =
          CASE Reflect(call, Top(call).type).kind = "interface" ->
                  ReturnErr(call, ScanErrorf(call, "is interface{} type"))
            [] Reflect(call, Top(call).type).kind = "map" ->
                  IF Reflect(call, Reflect(call, Top(call).type).elem).kind = "interface"
                        /\ ~call.opts.AllowMapStringInterface
                  THEN ReturnErr(call, ScanErrorf(call, "contains map with interface{} values"))
                  ELSE NextField(call)
            [] Reflect(call, Top(call).type).kind = "slice" ->
                  Goto(call, [Top(call) EXCEPT !.pc = "derefElem",
                                               !.type = Reflect(call, Top(call).type).elem])
            [] Reflect(call, Top(call).type).kind = "struct" ->
                  [call EXCEPT !.stack = Append(@, Frame(Top(call).type, 0, "enter", ""))]
            [] OTHER -> NextField(call)
    /\ CallFrame

\* for elemType.Kind() == reflect.Ptr { elemType = elemType.Elem() }, one
\* test of the condition, and the check that follows the loop
ScanDerefElem ==
    /\ Scanning
    /\ Top(call).pc = "derefElem"
    /\ call' = IF Reflect(call, Top(call).type).kind = "ptr"
               THEN Goto(call, [Top(call) EXCEPT !.type = Reflect(call, Top(call).type).elem])
               ELSE IF Reflect(call, Top(call).type).kind = "interface"
                        /\ ~call.opts.AllowSliceInterface
               THEN ReturnErr(call, ScanErrorf(call, "is []interface{} type"))
               ELSE NextField(call)
    /\ CallFrame

NextScan ==
    \/ ScanCall
    \/ ScanEnter
    \/ ScanField
    \/ ScanDeref
    \/ ScanSwitch
    \/ ScanDerefElem

SpecScan == InitState /\ [][NextScan]_vars

\* the scan is not stopped from outside: a step it can take, it takes
SpecScanFair == SpecScan /\ WF_vars(NextScan)

\* an Option value: the constructor that made it and its argument
OptionOf(with, arg) == [with |-> with, arg |-> arg]

\* the overrides a caller may supply
Overrides ==
    {OptionOf("WithMaxSize", n) : n \in SizeArgs}
        \cup {OptionOf("WithMaxDepth", n) : n \in DepthArgs}
        \cup {OptionOf("WithAllowedTypes", types) : types \in PipelineAllowed}
        \cup {OptionOf(with, b) :
                with \in {"WithStrictMode", "WithAllowMapStringInterface",
                          "WithAllowSliceInterface"},
                b \in BOOLEAN}

\* opt(options)
ApplyOption(opt, o) ==
    CASE opt.with = "WithMaxSize" -> WithMaxSize(opt.arg, o)
      [] opt.with = "WithMaxDepth" -> WithMaxDepth(opt.arg, o)
      [] opt.with = "WithAllowedTypes" -> WithAllowedTypes(opt.arg, o)
      [] opt.with = "WithStrictMode" -> WithStrictMode(opt.arg, o)
      [] opt.with = "WithAllowMapStringInterface" -> WithAllowMapStringInterface(opt.arg, o)
      [] opt.with = "WithAllowSliceInterface" -> WithAllowSliceInterface(opt.arg, o)

\* the overrides of the list opts applied so far
Supplied == IF call = NoCall THEN <<>> ELSE call.opts

\* one iteration of for _, opt := range opts { opt(options) }: the record
\* keeps the list so far and the options before this override
ResolveStep ==
    /\ call.op \in {"none", "resolve"}
    /\ Len(Supplied) < MaxOverrides
    /\ \E opt \in Overrides :
          /\ options' = ApplyOption(opt, options)
          /\ call' = [op |-> "resolve", opts |-> Append(Supplied, opt), before |-> options]
    /\ UNCHANGED <<decoder, registry, registered, mu, procs>>

NextOptions == ResolveStep

SpecOptions == InitState /\ [][NextOptions]_vars

\* the bytes measureJSONDepth tells apart: brackets, the quote, the
\* backslash, and any other byte
DepthBytes == {"{", "[", "}", "]", "\"", "\\", "a"}

DepthInputs == SeqsUpTo(DepthBytes, MaxDepthLen)

\* measureJSONDepth(data) called on its own
CallMeasureJSONDepth ==
    /\ \E data \in DepthInputs :
          call' = [op |-> "measureJSONDepth", data |-> data,
                   depth |-> measureJSONDepth(data)]
    /\ UNCHANGED <<options, decoder, registry, registered, mu, procs>>

NextDepth == CallMeasureJSONDepth

SpecDepth == InitState /\ [][NextDepth]_vars

\* a session of the decode pipelines: overrides, then calls of the free
\* functions with them, or a Decoder built from them and calls of its methods
Next ==
    \/ \E size \in SizeArgs : ApplyWithMaxSize(size)
    \/ \E depth \in DepthArgs : ApplyWithMaxDepth(depth)
    \/ \E types \in PipelineAllowed : ApplyWithAllowedTypes(types)
    \/ \E strict \in BOOLEAN : ApplyWithStrictMode(strict)
    \/ \E allow \in BOOLEAN : ApplyWithAllowMapStringInterface(allow)
    \/ \E allow \in BOOLEAN : ApplyWithAllowSliceInterface(allow)
    \/ NewDecoder
    \/ JSON
    \/ JSONReader
    \/ YAML
    \/ YAMLReader
    \/ XML
    \/ XMLReader
    \/ Gob
    \/ GobReader
    \/ DecoderJSON
    \/ DecoderJSONReader
    \/ DecoderYAML
    \/ DecoderYAMLReader
    \/ DecoderXML
    \/ DecoderXMLReader
    \/ DecoderGob
    \/ DecoderGobReader

Spec == InitState /\ [][Next]_vars

\* the values handed to WithMaxSize with the largest int64 values among them
StreamSizes == SizeArgs \cup {MaxInt64 - 1, MaxInt64}

\* a session of the text stream entry points under any MaxSize
NextStream ==
    \/ \E size \in StreamSizes : ApplyWithMaxSize(size)
    \/ JSONReader
    \/ YAMLReader
    \/ XMLReader

SpecStream == InitState /\ [][NextStream]_vars

-----------------------------------------------------------------------------
(* Properties of target validation (SpecTarget).                           *)

\* a validateTarget call has returned; options still holds what it was given
Validated == call.op = "validateTarget"

\* the type the destination points to
Pointee(v) == Elem(v.type)

\* v is a non-nil pointer
IsPointer(v) == v # NilValue /\ Kind(v.type) = "ptr" /\ ~v.isNil

\* a container type whose values / elements are interface{}
HasDynamicElems(t, kinds) == Kind(t) \in kinds /\ Kind(Elem(t)) = "interface"

\* the checks in the order the contract lists them, each with its sentinel;
\* "scan" stands for the struct field scan, "pass" for success
FirstFailingCheck(v, o) ==
    CASE v = NilValue -> "ErrNilTarget"
      [] v # NilValue /\ Kind(v.type) # "ptr" -> "ErrNotPointer"
      [] v # NilValue /\ Kind(v.type) = "ptr" /\ v.isNil -> "ErrNilTarget"
      [] IsPointer(v) /\ Kind(Pointee(v)) = "interface" -> "ErrInterfaceTarget"
      [] OTHER ->
            LET t == Pointee(v)
            IN  IF HasDynamicElems(t, {"map"}) /\ ~o.AllowMapStringInterface
                THEN "ErrMapInterface"
                ELSE IF HasDynamicElems(t, {"slice"}) /\ ~o.AllowSliceInterface
                THEN "ErrSliceInterface"
                ELSE IF o.AllowedTypes # {} /\ TypeString(t) \notin o.AllowedTypes
                THEN "ErrTypeNotAllowed"
                ELSE IF o.StrictMode /\ Kind(t) = "struct"
                        /\ validateStructFields(t, o, {}).err # NilErr
                THEN "scan"
                ELSE "pass"

\* C4: validateTarget returns the error of the first failing check in the
\* order nil destination, not a pointer, nil pointer, interface pointee,
\* dynamic map, dynamic slice, whitelist, strict struct scan, and succeeds
\* iff none fails
C4_FirstFailingCheck ==
    Validated =>
        LET first == FirstFailingCheck(call.v, options)
        IN  /\ (first = "pass") <=> (call.err = NilErr)
            /\ first = "scan" =>
                    call.err = validateStructFields(Pointee(call.v), options, {}).err
            /\ first \notin {"pass", "scan"} => call.err.is = first

\* C4 witness: a disallowed map[string]interface{} destination that the
\* non-empty whitelist does not name either yields ErrMapInterface
C4_Witness ==
    /\ Validated
    /\ call.v = PointerTo("map[string]interface {}")
    /\ ~options.AllowMapStringInterface
    /\ options.AllowedTypes = {"Other"}
    /\ ErrorsIs(call.err, ErrMapInterface)

\* C5: nil, non-pointer, nil-pointer and *interface{} destinations yield
\* ErrNilTarget, ErrNotPointer, ErrNilTarget and ErrInterfaceTarget under
\* every Options value
C5_OptionsIndependent ==
    Validated =>
        /\ call.v = NilValue => call.err = ErrNilTarget
        /\ (call.v # NilValue /\ Kind(call.v.type) # "ptr") => call.err = ErrNotPointer
        /\ (call.v # NilValue /\ Kind(call.v.type) = "ptr" /\ call.v.isNil)
                => call.err = ErrNilTarget
        /\ (IsPointer(call.v) /\ Kind(Pointee(call.v)) = "interface")
                => call.err = ErrInterfaceTarget

\* C5 witness: *interface{} is rejected with every option set against it:
\* lenient mode, both allow flags, and a whitelist naming interface {}
C5_Witness ==
    /\ Validated
    /\ call.v = PointerTo("interface {}")
    /\ ~options.StrictMode
    /\ options.AllowMapStringInterface
    /\ options.AllowSliceInterface
    /\ options.AllowedTypes = {"interface {}"}
    /\ options.MaxSize # DefaultMaxSize
    /\ options.MaxDepth # DefaultMaxDepth
    /\ call.err = ErrInterfaceTarget

\* C6 (as claimed): a map with interface{} values is rejected with
\* ErrMapInterface exactly when AllowMapStringInterface is false, a slice or
\* array with interface{} elements with ErrSliceInterface exactly when
\* AllowSliceInterface is false, and containers of concrete elements never
C6_ContainerFlags ==
    (Validated /\ IsPointer(call.v)) =>
        LET t == Pointee(call.v)
        IN  /\ HasDynamicElems(t, {"map"}) =>
                (ErrorsIs(call.err, ErrMapInterface) <=> ~options.AllowMapStringInterface)
            /\ HasDynamicElems(t, {"slice", "array"}) =>
                (ErrorsIs(call.err, ErrSliceInterface) <=> ~options.AllowSliceInterface)
            /\ (Kind(t) \in {"map", "slice", "array"} /\ Kind(Elem(t)) # "interface") =>
                (~ErrorsIs(call.err, ErrMapInterface)
                 /\ ~ErrorsIs(call.err, ErrSliceInterface))

\* the destination passes the nil, pointer, interface and container checks
PassesShapeChecks(v, o) ==
    /\ IsPointer(v)
    /\ Kind(Pointee(v)) # "interface"
    /\ ~(HasDynamicElems(Pointee(v), {"map"}) /\ ~o.AllowMapStringInterface)
    /\ ~(HasDynamicElems(Pointee(v), {"slice"}) /\ ~o.AllowSliceInterface)

\* C7: past the shape checks, a non-empty AllowedTypes rejects with
\* ErrTypeNotAllowed iff the pointee's type name is not in it; an empty
\* AllowedTypes never gives ErrTypeNotAllowed
C7_Whitelist ==
    Validated =>
        /\ (PassesShapeChecks(call.v, options) /\ options.AllowedTypes # {}) =>
                (ErrorsIs(call.err, ErrTypeNotAllowed)
                    <=> TypeString(Pointee(call.v)) \notin options.AllowedTypes)
        /\ options.AllowedTypes = {} => ~ErrorsIs(call.err, ErrTypeNotAllowed)

\* C7 witness: &SimpleUser{} against the whitelist ["Other"]
C7_Witness ==
    /\ Validated
    /\ call.v = PointerTo("safedeserialize.SimpleUser")
    /\ options.AllowedTypes = {"Other"}
    /\ ErrorsIs(call.err, ErrTypeNotAllowed)

\* the struct types nested in the struct types S through exported fields of
\* struct type, held directly or behind pointers
RECURSIVE NestedStructs(_)
NestedStructs(S) ==
    LET more == UNION {{Deref(Fields(t)[i].type) :
                            i \in {j \in DOMAIN Fields(t) :
                                    /\ Fields(t)[j].exported
                                    /\ Kind(Deref(Fields(t)[j].type)) = "struct"}} :
                       t \in S}
    IN  IF more \subseteq S THEN S ELSE NestedStructs(S \cup more)

\* the exported fields, at any nesting depth of struct t, whose type is one of
\* the given dynamic shapes: "interface", "map" (of interface{}), "slice"
DynamicFields(t, shapes) ==
    UNION {{<<s, i>> :
                i \in {j \in DOMAIN Fields(s) :
                        /\ Fields(s)[j].exported
                        /\ LET ft == Fields(s)[j].type
                           IN  \/ "interface" \in shapes /\ Kind(ft) = "interface"
                               \/ "map" \in shapes /\ HasDynamicElems(ft, {"map"})
                               \/ "slice" \in shapes /\ HasDynamicElems(ft, {"slice"})}} :
           s \in NestedStructs({t})}

\* the dynamic shapes the allow flags of o do not exempt
RejectedShapes(o) ==
    {"interface"}
    \cup (IF o.AllowMapStringInterface THEN {} ELSE {"map"})
    \cup (IF o.AllowSliceInterface THEN {} ELSE {"slice"})

AllShapes == {"interface", "map", "slice"}

\* a validateTarget call on a pointer to a struct
ValidatedStruct == Validated /\ IsPointer(call.v) /\ Kind(Pointee(call.v)) = "struct"

\* C8 (as claimed): a struct with an exported interface{}, dynamic-map or
\* dynamic-slice field at any nesting depth fails validation when StrictMode
\* is true and passes it when StrictMode is false
C8_StrictFailsLenientPasses ==
    (ValidatedStruct /\ DynamicFields(Pointee(call.v), AllShapes) # {}) =>
        IF options.StrictMode THEN call.err # NilErr ELSE call.err = NilErr

\* C8 (amended): in strict mode such a struct fails unless all its dynamic
\* fields are maps / slices that the allow flags permit; in lenient mode it is
\* never rejected for its fields: it passes iff the whitelist is empty or
\* names it
C8_StrictScan ==
    ValidatedStruct =>
        LET t == Pointee(call.v)
        IN  /\ (options.StrictMode /\ DynamicFields(t, RejectedShapes(options)) # {})
                    => (call.err # NilErr)
            /\ (~options.StrictMode /\ DynamicFields(t, AllShapes) # {})
                    => (call.err = NilErr
                            <=> (options.AllowedTypes = {}
                                    \/ TypeString(t) \in options.AllowedTypes))

\* C8 witness: the interface{} field sits two structs down, the inner struct
\* held through a pointer, and strict validation rejects the outer struct
C8_Witness ==
    /\ ValidatedStruct
    /\ call.v = PointerTo(NestName(2, "iface"))
    /\ options.StrictMode
    /\ options.AllowedTypes = {}
    /\ call.err.is = "none"

-----------------------------------------------------------------------------
(* Properties of the decode pipelines (Spec).                              *)

ByteBufferOps == {"JSON", "YAML", "XML", "Gob"}
ReaderOps == {"JSONReader", "YAMLReader", "XMLReader", "GobReader"}

\* a decode call has returned
DecodeCalled == call.op \in ByteBufferOps \cup ReaderOps

\* the Options the call ran with: the Decoder's, or the resolved option list
EffectiveOptions == IF call.recv = "Decoder" THEN decoder.opts ELSE options

\* C1 (as claimed): at every decode entry point an input longer than the
\* effective MaxSize fails with ErrDataTooLarge, the decoder not invoked
C1_OversizeRejected ==
    (DecodeCalled /\ Len(call.data) > EffectiveOptions.MaxSize) =>
        (ErrorsIs(call.res.err, ErrDataTooLarge) /\ ~call.res.decoded)

\* the guard of a text pipeline that fails first, in the order empty, size,
\* target, depth (JSON in strict mode only); "none" when all pass
FirstFailingGuard(op, data, v, o) ==
    IF Len(data) = 0 THEN "ErrEmptyData"
    ELSE IF Len(data) > o.MaxSize THEN "ErrDataTooLarge"
    ELSE IF validateTarget(v, o) # NilErr THEN "target"
    ELSE IF op = "JSON" /\ o.StrictMode /\ measureJSONDepth(data) > o.MaxDepth
    THEN "ErrMaxDepthExceeded"
    ELSE "none"

\* the steps of a text pipeline, in their order
StepOrder(op, o) ==
    IF op = "JSON" /\ o.StrictMode
    THEN <<"empty", "size", "target", "depth", "decode">>
    ELSE <<"empty", "size", "target", "decode">>

\* C2: JSON, YAML and XML on a byte buffer check empty data, size, target and
\* (JSON, strict) depth in this order and return the error of the first check
\* that fails; when a guard fails the decoder is not invoked and the
\* destination is unchanged; when none fails the decoder gets the data
C2_CheckOrder ==
    (call.op \in {"JSON", "YAML", "XML"}) =>
        LET o == EffectiveOptions
            g == FirstFailingGuard(call.op, call.data, call.v, o)
            order == StepOrder(call.op, o)
        IN  /\ call.res.steps = SubSeq(order, 1, Len(call.res.steps))
            /\ g = "target" => call.res.err = validateTarget(call.v, o)
            /\ g \notin {"target", "none"} => call.res.err.is = g
            /\ g # "none" =>
                    /\ ~call.res.decoded
                    /\ call.res.dest = "unchanged"
                    /\ "decode" \notin {call.res.steps[i] : i \in DOMAIN call.res.steps}
            /\ g = "none" =>
                    /\ call.res.decoded
                    /\ call.res.input = call.data
                    /\ call.res.steps = order

\* C2 witness: oversized data with an interface{} destination gives
\* ErrDataTooLarge, the destination untouched
C2_Witness ==
    /\ call.op = "JSON"
    /\ Len(call.data) > EffectiveOptions.MaxSize
    /\ call.v = PointerTo("interface {}")
    /\ ErrorsIs(call.res.err, ErrDataTooLarge)
    /\ call.res.steps = <<"empty", "size">>
    /\ call.res.dest = "unchanged"

\* C3 (as claimed): each byte-buffer entry point, Gob included, returns
\* ErrEmptyData on zero-length data whatever the destination and options
C3_EmptyData ==
    (call.op \in ByteBufferOps /\ Len(call.data) = 0) =>
        ErrorsIs(call.res.err, ErrEmptyData)

-----------------------------------------------------------------------------
(* Properties of the TypeRegistry (SpecRegistry).                          *)

\* the type names registered so far
RegisteredNames == {RegistryKey(x) : x \in registered}

\* a JSON call made with r.Option() as its only option
DecodedWithOption == call.op = "JSON" /\ call.recv = "Option"

\* C9 (as claimed): with registry.Option(), the empty registry included, a
\* destination type never registered fails with ErrTypeNotAllowed and a
\* registered one is not rejected by the whitelist
C9_RegistryWhitelist ==
    (/\ DecodedWithOption
     /\ Len(call.data) > 0
     /\ PassesShapeChecks(call.v, DefaultOptions)) =>
        (ErrorsIs(call.res.err, ErrTypeNotAllowed)
            <=> TypeString(Pointee(call.v)) \notin RegisteredNames)

\* the values V of the universe whose &V is of the universe too
Addressable == {v \in RegistryValues : AddressOf(v) \in RegistryValues}

\* Register or RegisterMultiple was called with V or &V
RegisteredEither(v) == v \in registered \/ AddressOf(v) \in registered

\* C10 (as claimed): IsRegistered(V) and IsRegistered(&V) are both true iff
\* V or &V was registered, and what was registered stays registered
C10_RegisteredIff ==
    /\ \A v \in Addressable :
            (IsRegistered(registry, v) /\ IsRegistered(registry, AddressOf(v)))
                <=> RegisteredEither(v)
    /\ \A x \in registered : IsRegistered(registry, x)

\* C10 (amended): the equivalence holds for V of a type that is not a
\* pointer; every value registered, pointer or not, stays registered and
\* the registry holds nothing that was not registered
C10_RegisteredIffValue ==
    /\ \A v \in {x \in Addressable : Kind(x.type) # "ptr"} :
            /\ IsRegistered(registry, v) <=> RegisteredEither(v)
            /\ IsRegistered(registry, AddressOf(v)) <=> RegisteredEither(v)
    /\ \A x \in registered : IsRegistered(registry, x)
    /\ DOMAIN registry = RegisteredNames
    /\ call.op = "IsRegistered" => call.ok = IsRegistered(registry, call.v)

\* C10 witness: SimpleUser registered by value only is reported registered
\* when asked with a pointer
C10_Witness ==
    /\ call.op = "IsRegistered"
    /\ call.v = PointerTo("safedeserialize.SimpleUser")
    /\ call.ok
    /\ registered = {ValueOf("safedeserialize.SimpleUser")}

\* the elements of a slice of names
NameSet(names) == {names[i] : i \in DOMAIN names}

\* the name of x's type with every pointer level removed: one name for V,
\* &V, &&V
RECURSIVE Indirect(_)
Indirect(t) == IF Kind(t) = "ptr" THEN Indirect(Elem(t)) ELSE TypeString(t)

\* the name of x's type with one pointer level removed: one name for V and
\* &V when V is not a pointer
IndirectOnce(x) == IF Kind(x.type) = "ptr" THEN TypeString(Elem(x.type)) ELSE TypeString(x.type)

\* no name occurs twice in the list
EachOnce(names) == \A i, j \in DOMAIN names : names[i] = names[j] => i = j

\* C26 (as claimed): TypeNames lists once each the names of the registered
\* types, V and &V counting as one type for every V, and registrations made
\* after the call leave the returned list as it was
C26_NamesOncePerType ==
    call.op = "TypeNames" =>
        /\ EachOnce(call.names)
        /\ NameSet(call.names) = {Indirect(x.type) : x \in call.of}

\* C26 (amended): the same with V and &V counting as one type when V is not
\* itself a pointer: Register removes one pointer level, so registering &V
\* for V of type *T adds the name *T
C26_NamesOncePerKey ==
    call.op = "TypeNames" =>
        /\ EachOnce(call.names)
        /\ NameSet(call.names) = {IndirectOnce(x) : x \in call.of}
        /\ Len(call.names) = Cardinality({IndirectOnce(x) : x \in call.of})

\* C26 witness: SimpleUser was registered by value and by pointer, TypeNames
\* returned the one name, and a type registered afterwards is in the
\* registry and not in the list
C26_Witness ==
    /\ call.op = "TypeNames"
    /\ {ValueOf("safedeserialize.SimpleUser"),
        PointerTo("safedeserialize.SimpleUser")} \subseteq call.of
    /\ call.names = <<"safedeserialize.SimpleUser">>
    /\ "safedeserialize.UnsafeStruct" \in DOMAIN registry

-----------------------------------------------------------------------------
(* Properties of the depth limit and of the stream entry points (Spec).    *)

\* a JSON entry point in strict mode got past the empty, size and target
\* checks: the data is there (a stream was read without an error), it is not
\* empty, it is within MaxSize, and the destination is valid
ReachedDepthCheck ==
    /\ call.op \in {"JSON", "JSONReader"}
    /\ ~call.fails
    /\ EffectiveOptions.StrictMode
    /\ Len(call.data) > 0
    /\ Len(call.data) <= EffectiveOptions.MaxSize
    /\ validateTarget(call.v, EffectiveOptions) = NilErr

\* C12: a strict JSON call on non-empty data within MaxSize and a valid
\* destination returns ErrMaxDepthExceeded iff measureJSONDepth(data) is
\* greater than MaxDepth; data as deep as MaxDepth goes on to the decoder
C12_DepthLimit ==
    ReachedDepthCheck =>
        /\ ErrorsIs(call.res.err, ErrMaxDepthExceeded)
              <=> measureJSONDepth(call.data) > EffectiveOptions.MaxDepth
        /\ measureJSONDepth(call.data) = EffectiveOptions.MaxDepth =>
              (call.res.decoded /\ call.res.input = call.data /\ call.res.strict)

\* C12 witness: data exactly as deep as MaxDepth was handed to the decoder
C12_Witness ==
    /\ ReachedDepthCheck
    /\ measureJSONDepth(call.data) = EffectiveOptions.MaxDepth
    /\ call.res.decoded
    /\ call.res.input = call.data

\* C16: no stream entry point, of the package or of a Decoder, takes more
\* than MaxSize + 1 bytes from its source, however long the source is; when
\* target validation rejects the destination it takes none
C16_BoundedRead ==
    call.op \in ReaderOps =>
        /\ call.res.read <= EffectiveOptions.MaxSize + 1
        /\ validateTarget(call.v, EffectiveOptions) # NilErr =>
              (call.res.read = 0 /\ call.res.steps = <<"target">>)

\* C16 witness: a source longer than MaxSize + 1 bytes is left after exactly
\* MaxSize + 1 of them
C16_Witness ==
    /\ call.op = "JSONReader"
    /\ Len(call.data) > EffectiveOptions.MaxSize + 1
    /\ call.res.read = EffectiveOptions.MaxSize + 1
    /\ ErrorsIs(call.res.err, ErrDataTooLarge)

\* the first n bytes of s, all of s when it is shorter
FirstBytes(s, n) == IF Len(s) <= n THEN s ELSE SubSeq(s, 1, n)

\* the byte-buffer entry point of the format of a stream entry point
ByteBufferResult(op, data, v, o, ok) ==
    CASE op = "JSONReader" -> jsonUnmarshal(data, v, o, ok)
      [] op = "YAMLReader" -> yamlUnmarshal(data, v, o, ok)
      [] op = "XMLReader" -> xmlUnmarshal(data, v, o, ok)
      [] op = "GobReader" -> gobDecode(BytesReader(data), v, o, ok)

\* two results are the same: the error, whether the decoder ran, on which
\* bytes, how strictly, and what became of the destination
SameResult(a, b) ==
    /\ a.err = b.err
    /\ a.decoded = b.decoded
    /\ a.input = b.input
    /\ a.strict = b.strict
    /\ a.dest = b.dest

\* C17 (as claimed): a stream entry point on a source that yields s returns
\* what the byte-buffer entry point of its format returns on the first
\* min(len(s), MaxSize + 1) bytes of s, for every destination and Options
C17_StreamAsByteBuffer ==
    (call.op \in ReaderOps /\ ~call.fails) =>
        \E ok \in BOOLEAN :
            SameResult(call.res,
                       ByteBufferResult(call.op,
                                        FirstBytes(call.data, EffectiveOptions.MaxSize + 1),
                                        call.v, EffectiveOptions, ok))

\* the positions of a step among the steps of the call
StepsAt(step) == {i \in DOMAIN call.res.steps : call.res.steps[i] = step}

\* measureJSONDepth was invoked during the call
DepthMeasured == DecodeCalled /\ StepsAt("depth") # {}

\* C24: at every entry point measureJSONDepth is invoked only once the empty
\* check, the size check and target validation have passed, and so only on
\* data of 1 to MaxSize bytes
C24_DepthAfterGuards ==
    DepthMeasured =>
        /\ call.op \in {"JSON", "JSONReader"}
        /\ \A step \in {"empty", "size", "target"} :
              \E i \in StepsAt(step) : \A j \in StepsAt("depth") : i < j
        /\ Len(call.data) >= 1
        /\ Len(call.data) <= EffectiveOptions.MaxSize
        /\ validateTarget(call.v, EffectiveOptions) = NilErr

\* C24 witness: a stream of exactly MaxSize bytes was measured
C24_Witness ==
    /\ DepthMeasured
    /\ call.op = "JSONReader"
    /\ Len(call.data) = EffectiveOptions.MaxSize
    /\ call.res.steps = <<"target", "read", "empty", "size", "target", "depth", "decode">>

\* the kinds of the error taxonomy
Taxonomy ==
    {ErrEmptyData, ErrDataTooLarge, ErrNilTarget, ErrNotPointer, ErrInterfaceTarget,
     ErrMapInterface, ErrSliceInterface, ErrTypeNotAllowed, ErrMaxDepthExceeded}

\* C20 (as claimed): every failure of a guard check, the failures of the
\* struct field scanner included, is or wraps a sentinel of the taxonomy;
\* a failure is a guard's when the call returned without reaching the
\* decoder and the source had not failed
C20_GuardErrorsClassified ==
    (DecodeCalled /\ ~call.fails /\ ~call.res.decoded) =>
        \E sentinel \in Taxonomy : ErrorsIs(call.res.err, sentinel)

-----------------------------------------------------------------------------
(* Properties of a Decoder that is reused (SpecDecoder).  options holds    *)
(* the list L the Decoder was built with, resolved: no override is applied *)
(* once the Decoder is built.                                              *)

\* the free function of the name, called with the resolved list o
FreeFunction(op, r, v, o, ok) ==
    CASE op = "JSON" -> jsonUnmarshal(r.bytes, v, o, ok)
      [] op = "JSONReader" -> jsonDecode(r, v, o, ok)
      [] op = "YAML" -> yamlUnmarshal(r.bytes, v, o, ok)
      [] op = "YAMLReader" -> yamlDecode(r, v, o, ok)
      [] op = "XML" -> xmlUnmarshal(r.bytes, v, o, ok)
      [] op = "XMLReader" -> xmlDecode(r, v, o, ok)
      [] op = "Gob" -> gobDecode(BytesReader(r.bytes), v, o, ok)
      [] op = "GobReader" -> gobDecode(r, v, o, ok)

\* a method of the Decoder has returned
DecoderCalled == call.op \in MethodNames /\ call.recv = "Decoder"

\* the names registered since the Decoder was built
RegisteredLater == DOMAIN registry \ decoder.opts.AllowedTypes

\* C18 (as claimed): after NewDecoder(registry.Option()) a later Register or
\* RegisterMultiple changes neither the Decoder's AllowedTypes nor the
\* outcome of a later call on it: a destination of a type registered since
\* is rejected with ErrTypeNotAllowed
C18_WhitelistFixedAtBuild ==
    decoder # NoDecoder =>
        /\ decoder.opts.AllowedTypes = options.AllowedTypes
        /\ DecoderCalled =>
              /\ call.res = FreeFunction(call.op, Stream(call.data, call.fails),
                                         call.v, options, call.ok)
              /\ (/\ TypeString(Elem(call.v.type)) \in RegisteredLater
                  /\ call.op \in ReaderOps)
                    => ErrorsIs(call.res.err, ErrTypeNotAllowed)

\* C19: every method of NewDecoder(L...) returns what the free function of
\* its name returns when called with L, on every input and destination, and
\* the Decoder's Options stay those it was built with through every call, so
\* a call gives the same result whatever calls were made before it
C19_DecoderAsFreeFunction ==
    decoder # NoDecoder =>
        /\ decoder.opts = options
        /\ DecoderCalled =>
              call.res = FreeFunction(call.op, Stream(call.data, call.fails),
                                      call.v, options, call.ok)

\* C19 witness: a Decoder built with MaxSize 1, strict mode off and a
\* whitelist has rejected a two-byte stream for its size
C19_Witness ==
    /\ DecoderCalled
    /\ call.op = "YAMLReader"
    /\ decoder.opts.MaxSize = 1
    /\ ~decoder.opts.StrictMode
    /\ decoder.opts.AllowedTypes # {}
    /\ call.v = PointerTo("safedeserialize.SimpleUser")
    /\ Len(call.data) = 2
    /\ ErrorsIs(call.res.err, ErrDataTooLarge)

-----------------------------------------------------------------------------
(* The reach of the depth limit (Spec).                                    *)

\* the depth limits a call is run again with
DepthLimits == (1..(MaxDepthArg + 1)) \cup {DefaultMaxDepth}

\* the call gives its result whatever MaxDepth is
DepthIndependent ==
    \A depth \in DepthLimits :
        \E ok \in BOOLEAN :
            call.res = FreeFunction(call.op, Stream(call.data, call.fails), call.v,
                                    [EffectiveOptions EXCEPT !.MaxDepth = depth], ok)

\* C25: ErrMaxDepthExceeded comes from the JSON entry points in strict mode
\* only: never from them with StrictMode false, however deep the input, and
\* the results of the YAML, XML and Gob entry points are the same whatever
\* MaxDepth is
C25_DepthLimitJSONStrictOnly ==
    DecodeCalled =>
        /\ ErrorsIs(call.res.err, ErrMaxDepthExceeded) =>
              (call.op \in {"JSON", "JSONReader"} /\ EffectiveOptions.StrictMode)
        /\ call.op \notin {"JSON", "JSONReader"} => DepthIndependent
        /\ ~EffectiveOptions.StrictMode => DepthIndependent

\* C25 witness: with StrictMode false, JSON data nested deeper than MaxDepth
\* went on to the decoder
C25_Witness ==
    /\ call.op \in {"JSON", "JSONReader"}
    /\ ~EffectiveOptions.StrictMode
    /\ measureJSONDepth(call.data) > EffectiveOptions.MaxDepth
    /\ call.res.decoded
    /\ call.res.input = call.data

-----------------------------------------------------------------------------
(* Properties of the option overrides (SpecOptions).                       *)

\* the override applied last
LastOption == call.opts[Len(call.opts)]

\* the field an override targets
TargetField(opt) ==
    CASE opt.with = "WithMaxSize" -> "MaxSize"
      [] opt.with = "WithMaxDepth" -> "MaxDepth"
      [] opt.with = "WithAllowedTypes" -> "AllowedTypes"
      [] opt.with = "WithStrictMode" -> "StrictMode"
      [] opt.with = "WithAllowMapStringInterface" -> "AllowMapStringInterface"
      [] opt.with = "WithAllowSliceInterface" -> "AllowSliceInterface"

\* an override that is not ignored: a size or a depth has to be positive
ValidOption(opt) == opt.with \in {"WithMaxSize", "WithMaxDepth"} => opt.arg > 0

\* the positions of the valid overrides of the list that target the field
ValidFor(opts, field) ==
    {i \in DOMAIN opts : TargetField(opts[i]) = field /\ ValidOption(opts[i])}

\* the value the list gives the field: the argument of the last valid
\* override that targets it, the default when there is none
LastValid(opts, field) ==
    IF ValidFor(opts, field) = {} THEN DefaultOptions[field]
    ELSE opts[CHOOSE i \in ValidFor(opts, field) : \A j \in ValidFor(opts, field) : j <= i].arg

\* C14: the defaults are MaxSize 1048576, MaxDepth 32, StrictMode true, both
\* allow flags false and no whitelist; after any overrides MaxSize > 0 and
\* MaxDepth > 0; WithMaxSize(n) and WithMaxDepth(n) with n <= 0 leave every
\* field as it was
C14_PositiveLimits ==
    /\ call = NoCall =>
          options = [MaxSize |-> 1048576, MaxDepth |-> 32, AllowedTypes |-> {},
                     StrictMode |-> TRUE, AllowMapStringInterface |-> FALSE,
                     AllowSliceInterface |-> FALSE]
    /\ options.MaxSize > 0
    /\ options.MaxDepth > 0
    /\ (call.op = "resolve" /\ ~ValidOption(LastOption)) => options = call.before

\* C14 witness: after a valid WithMaxSize, a WithMaxSize(n) with n <= 0 was
\* applied and left the options as they were
C14_Witness ==
    /\ call.op = "resolve"
    /\ LastOption.with = "WithMaxSize"
    /\ LastOption.arg <= 0
    /\ options = call.before
    /\ options.MaxSize # DefaultMaxSize

\* C15: each override changes at most the field it targets, so the options
\* after [A, B, C] differ from those after [A, B] by the effect of C alone,
\* and every field has the value of the last valid override that targets it,
\* or its default
C15_FoldOfOverrides ==
    call.op = "resolve" =>
        /\ \A field \in DOMAIN options \ {TargetField(LastOption)} :
              options[field] = call.before[field]
        /\ options = ApplyOption(LastOption, call.before)
        /\ \A field \in DOMAIN options : options[field] = LastValid(call.opts, field)

\* C15 witness: three overrides, two valid ones on one field with different
\* arguments, the later one deciding, and another field overridden in between
C15_Witness ==
    /\ call.op = "resolve"
    /\ Len(call.opts) = 3
    /\ call.opts[1].with = "WithStrictMode"
    /\ call.opts[3].with = "WithStrictMode"
    /\ call.opts[1].arg # call.opts[3].arg
    /\ call.opts[2].with = "WithMaxDepth"
    /\ options.MaxDepth # DefaultMaxDepth
    /\ options.StrictMode = call.opts[3].arg

\* the positions of the WithAllowedTypes overrides of the list
WhitelistOverrides == {i \in DOMAIN call.opts : call.opts[i].with = "WithAllowedTypes"}

\* the list handed to the last of them
LastWhitelist ==
    call.opts[CHOOSE i \in WhitelistOverrides : \A j \in WhitelistOverrides : j <= i].arg

\* the struct types decoded into to see what a whitelist lets through
WhitelistProbes == {"safedeserialize.SimpleUser", "safedeserialize.ServerConfig"}

\* C22: WithAllowedTypes replaces the whitelist: after WithAllowedTypes(L1)
\* and then WithAllowedTypes(L2) the names of L2 are the allowed ones and no
\* others, and with an empty L2 the whitelist is empty and every type name
\* is accepted again
C22_WhitelistReplaced ==
    (call.op = "resolve" /\ WhitelistOverrides # {}) =>
        /\ options.AllowedTypes = LastWhitelist
        /\ \A t \in WhitelistProbes :
              ErrorsIs(validateTarget(PointerTo(t), options), ErrTypeNotAllowed)
                  <=> (LastWhitelist # {} /\ t \notin LastWhitelist)

\* C22 witness: SimpleUser was allowed by a first list, a second list without
\* it had it rejected, and a last, empty list has it accepted again
C22_Witness ==
    /\ call.op = "resolve"
    /\ Len(call.opts) = 3
    /\ \A i \in 1..3 : call.opts[i].with = "WithAllowedTypes"
    /\ call.opts[1].arg = {"safedeserialize.SimpleUser"}
    /\ call.opts[2].arg = {"Other"}
    /\ call.opts[3].arg = {}
    /\ ErrorsIs(validateTarget(PointerTo("safedeserialize.SimpleUser"), call.before),
                ErrTypeNotAllowed)
    /\ validateTarget(PointerTo("safedeserialize.SimpleUser"), options) = NilErr

-----------------------------------------------------------------------------
(* Properties of measureJSONDepth (SpecDepth).                             *)

\* the bytes of data outside string literals, from position i on: a literal
\* runs from a quote to the next quote not preceded by an escaping backslash
RECURSIVE OutsideStrings(_, _, _)
OutsideStrings(data, i, inString) ==
    IF i > Len(data) THEN <<>>
    ELSE IF ~inString
    THEN IF data[i] = "\"" THEN OutsideStrings(data, i + 1, TRUE)
         ELSE <<data[i]>> \o OutsideStrings(data, i + 1, FALSE)
    ELSE IF data[i] = "\\" THEN OutsideStrings(data, i + 2, TRUE)
    ELSE OutsideStrings(data, i + 1, data[i] # "\"")

\* the number of brackets open after the bytes q: an opening bracket opens
\* one, a closing bracket closes one if any is open
RECURSIVE OpenBrackets(_)
OpenBrackets(q) ==
    IF q = <<>> THEN 0
    ELSE LET before == OpenBrackets(SubSeq(q, 1, Len(q) - 1))
             b == q[Len(q)]
         IN  IF b \in {"{", "["} THEN before + 1
             ELSE IF b \in {"}", "]"} /\ before > 0 THEN before - 1
             ELSE before

\* the greatest number of brackets open at once
MaxOpenBrackets(q) ==
    LET counts == {OpenBrackets(SubSeq(q, 1, k)) : k \in 0..Len(q)}
    IN  CHOOSE m \in counts : \A n \in counts : n <= m

\* C13 (as claimed): for every byte sequence measureJSONDepth returns the
\* greatest number of brackets open at once outside string literals; a flat
\* object or array yields 1 and empty input 0
C13_MaxOpenBrackets ==
    call.op = "measureJSONDepth" =>
        /\ call.depth = MaxOpenBrackets(OutsideStrings(call.data, 1, FALSE))
        /\ call.data \in {<<"{", "}">>, <<"[", "]">>} => call.depth = 1
        /\ call.data = <<>> => call.depth = 0

\* the types one step from t: what a pointer, map, slice or array holds,
\* the types of the exported fields of a struct
HeldTypes(t) ==
    IF Kind(t) \in {"ptr", "map", "slice", "array"} THEN {Elem(t)}
    ELSE {Fields(t)[i].type : i \in {j \in DOMAIN Fields(t) : Fields(t)[j].exported}}

\* an interface{} type is reachable from t through pointers, map values,
\* slice and array elements and exported fields
RECURSIVE ReachesInterface(_, _)
ReachesInterface(t, seen) ==
    IF Kind(t) = "interface" THEN TRUE
    ELSE IF t \in seen THEN FALSE
    ELSE \E held \in HeldTypes(t) : ReachesInterface(held, seen \cup {t})

\* C29 (as claimed): when validateTarget succeeds with StrictMode true and
\* both allow flags false, no interface{} type is reachable from the type
\* the destination points to
C29_NoInterfaceReachable ==
    (/\ call.op = "validateTarget"
     /\ call.err = NilErr
     /\ options.StrictMode
     /\ ~options.AllowMapStringInterface
     /\ ~options.AllowSliceInterface) =>
        ~ReachesInterface(Pointee(call.v), {})

\* C30 (as claimed): for every positive MaxSize the bound MaxSize + 1 of
\* the JSON, YAML and XML stream entry points is positive, and a stream of
\* 1 to MaxSize bytes that ends with io.EOF, read into a valid destination,
\* is read completely and never reported as ErrEmptyData
C30_ReaderBoundPositive ==
    call.op \in {"JSONReader", "YAMLReader", "XMLReader"} =>
        /\ Int64Add(EffectiveOptions.MaxSize, 1) > 0
        /\ (/\ ~call.fails
            /\ Len(call.data) > 0
            /\ Len(call.data) <= EffectiveOptions.MaxSize
            /\ validateTarget(call.v, EffectiveOptions) = NilErr) =>
                /\ call.res.read = Len(call.data)
                /\ ~ErrorsIs(call.res.err, ErrEmptyData)

\* the names RegisterMultiple is called to add
BatchNames == {RegistryKey(call.values[i]) : i \in DOMAIN call.values}

\* names hold some of what the batch adds and not the whole batch
PartOfBatch(names) ==
    /\ (names \cap BatchNames) \ call.before # {}
    /\ ~(BatchNames \subseteq names)

\* C28 (as claimed): no TypeNames, Option or IsRegistered call running
\* while a RegisterMultiple is under way returns from a registry that holds
\* some of the types of the batch and not all of them
C28_BatchAtomic ==
    \A p \in Procs :
        (call.op = "RegisterMultiple" /\ procs[p].pc = "RUnlock") =>
            /\ procs[p].op \in {"TypeNames", "Option"} => ~PartOfBatch(NameSet(procs[p].names))
            /\ (procs[p].op = "IsRegistered" /\ procs[p].ok) => ~PartOfBatch(DOMAIN registry)

\* the lengths of the prefixes of data made of closing brackets only
ClosingPrefixes(data) ==
    {k \in 0..Len(data) : \A i \in 1..k : data[i] \in {"}", "]"}}

\* C27 (as claimed): closing brackets put in front of an input do not lower
\* the depth measured: measureJSONDepth(p + s) >= measureJSONDepth(s) for
\* every prefix p of '}' and ']' bytes
C27_ClosersDoNotLower ==
    call.op = "measureJSONDepth" =>
        \A k \in ClosingPrefixes(call.data) :
            call.depth >= measureJSONDepth(SubSeq(call.data, k + 1, Len(call.data)))

-----------------------------------------------------------------------------
(* Properties of the struct field scan step by step (SpecScan).            *)

\* no struct type had its field loop begun twice
ScannedOnce ==
    \A i, j \in DOMAIN call.scanned : call.scanned[i] = call.scanned[j] => i = j

\* C23: an unexported field added to a struct, whether of type interface{},
\* a map or a slice of interface{}, or a struct with unsafe exported fields,
\* leaves the result of validateStructFields for the struct what it is
\* without the field
C23_UnexportedIgnored ==
    (call.op = "validateStructFields" /\ call.returned /\ call.root \in Types) =>
        call.err = validateStructFields(call.root, call.opts, {}).err

\* C23 witness: SimpleUser with an unexported interface{} field ahead of its
\* fields has passed the scan, and UnsafeStruct with one has failed on Data
C23_Witness ==
    /\ call.op = "validateStructFields"
    /\ call.returned
    /\ call.added = [type |-> "interface {}", front |-> TRUE]
    /\ \/ call.root = "safedeserialize.SimpleUser" /\ call.err = NilErr
       \/ call.root = "safedeserialize.UnsafeStruct" /\ call.err # NilErr

\* C21 (as claimed): on every type graph, with structs that refer to
\* themselves or to each other and with recursively defined pointer types
\* reached through a field, validateStructFields returns, and within one
\* invocation the fields of a struct type are scanned at most once
C21_ScanTerminates ==
    /\ [](call.op = "validateStructFields" => ScannedOnce)
    /\ (call.op = "validateStructFields") ~> (call.op = "validateStructFields" /\ call.returned)

-----------------------------------------------------------------------------
(* Properties of the shared TypeRegistry (SpecShared).                     *)

\* the goroutines between Lock and Unlock, and between RLock and RUnlock
Writers == {p \in Procs : procs[p].pc \in {"write", "writing", "Unlock"}}
Readers == {p \in Procs : procs[p].pc \in {"read", "RUnlock"}}

\* the registry produced by exactly the Register calls of the set done
RegistryOf(done) == {RegistryKey(x) : x \in done}

\* C11: a Register's map write overlaps no other Register and no read, and
\* every IsRegistered / TypeNames / Option result is the result on the
\* registry of exactly the Register calls complete when the reader took the
\* lock, no entry being seen half written
C11_LockDiscipline ==
    /\ Cardinality(Writers) <= 1
    /\ Writers # {} => Readers = {}
    /\ Torn(registry) => Readers = {}
    /\ \A p \in Procs :
          /\ ~procs[p].torn
          /\ (procs[p].pc = "RUnlock" /\ procs[p].op = "IsRegistered") =>
                (procs[p].ok <=> RegistryKey(procs[p].v) \in RegistryOf(procs[p].snapshot))
          /\ (procs[p].pc = "RUnlock" /\ procs[p].op \in {"TypeNames", "Option"}) =>
                /\ NameSet(procs[p].names) = RegistryOf(procs[p].snapshot)
                /\ Len(procs[p].names) = Cardinality(RegistryOf(procs[p].snapshot))

\* C11 witness: two readers hold the lock together,
\* and one of them has found a type registered before it took the lock
C11_Witness ==
    /\ Cardinality(Readers) >= 2
    /\ \E p \in Readers :
          /\ procs[p].pc = "RUnlock"
          /\ procs[p].op = "IsRegistered"
          /\ procs[p].ok
          /\ procs[p].snapshot # {}

=============================================================================
